---------------------------- MODULE Spec2Model ----------------------------
(***************************************************************************)
(* Model of the model-to-changelog compiler of bento-mdb-updates:          *)
(*   cypher_utils.py  (escaping, entity -> pattern, statement assembly,    *)
(*                     the synonym-linking statement),                     *)
(*   model_cypher.py  (ModelToChangelogConverter),                         *)
(*   cde_cypher.py    (annotation -> changesets).                          *)
(*                                                                         *)
(* A string is a sequence of symbols: "q" is the single quote ', "d" the   *)
(* double quote ", "b" the backslash \, and any other symbol ("a", "NCIt", *)
(* ...) stands for a run of characters that holds none of these three.     *)
(* An attribute map holds the attributes that are not None; a None         *)
(* attribute is a key that is absent from the map.                         *)
(***************************************************************************)
EXTENDS Integers, Sequences, FiniteSets, Bags, TLC

VARIABLES
    esc_hist,   \* escaping: the attribute map of one entity, as constructed
                \* and after each escape_quotes_in_attr pass
    st_ent,     \* statement builders: the entity handed to the builder
    st_out,     \* statement builders: the last call and what it returned
    graph,      \* statement execution: the property graph of the database
    glog,       \* statement execution: the statements run so far, each with
                \* the graph it was run on
    conv,       \* converter: the objects of the model (heap), the converter's
                \* added_entities and cypher_stmts lists, the nanoids made
    model,      \* converter: the Model being converted and the arguments
    todo,       \* converter: the calls of the walk still to be made, next first
    changelog,  \* converter: the changelog returned, <<>> until then
    fn_in,      \* single calls: the function called and its arguments
    fn_out      \* single calls: what the call returned or raised

escVars == <<esc_hist>>
stVars == <<st_ent, st_out>>
gVars == <<graph, glog>>
cVars == <<conv, model, todo, changelog>>
fVars == <<fn_in, fn_out>>
vars == <<esc_hist, st_ent, st_out, graph, glog, conv, model, todo, changelog,
          fn_in, fn_out>>

\* ------------------------------------------------------------------ bounds
MaxStrLen == 3
MaxPasses == 3
MaxAttrLen == 1
MaxConcepts == 2
MaxExec == 2

\* ----------------------------------------------------------------- strings
Chars == {"a", "q", "d", "b"}

StringsUpTo(n) == UNION {[1..k -> Chars] : k \in 0..n}

RECURSIVE ReplacePair(_, _, _, _)
\* str.replace(old, new) for a two-character old = c1 c2: left to right,
\* occurrences do not overlap.
ReplacePair(s, c1, c2, new) ==
    IF Len(s) < 2 THEN s
    ELSE IF s[1] = c1 /\ s[2] = c2
         THEN new \o ReplacePair(SubSeq(s, 3, Len(s)), c1, c2, new)
         ELSE <<s[1]>> \o ReplacePair(Tail(s), c1, c2, new)

RECURSIVE ReplaceChar(_, _, _)
\* str.replace(old, new) for a one-character old = c.
ReplaceChar(s, c, new) ==
    IF s = <<>> THEN <<>>
    ELSE (IF s[1] = c THEN new ELSE <<s[1]>>) \o ReplaceChar(Tail(s), c, new)

\* cypher_utils.py:58  val.replace(r"\'", "'").replace(r"\"", '"')
UnescapeVal(val) ==
    ReplacePair(ReplacePair(val, "b", "q", <<"q">>), "b", "d", <<"d">>)

\* A pass that escapes without unescaping first (the bug the unescape
\* step is there to prevent).
EscapeValNoUnescape(val) ==
    ReplaceChar(ReplaceChar(val, "q", <<"b", "q">>), "d", <<"b", "d">>)

\* cypher_utils.py:58-68  unescape, then escape every ' and "
EscapeVal(val) ==
    ReplaceChar(ReplaceChar(UnescapeVal(val), "q", <<"b", "q">>),
                "d", <<"b", "d">>)

\* escape_quotes_in_attr over an attribute map: every string attribute
\* that is not None is replaced by its escaped value.
EscapeQuotesInAttr(attrs) == [k \in DOMAIN attrs |-> EscapeVal(attrs[k])]


\* ---------------------------------------------------------------- entities
\* An entity as the statement builders read it: its class (kind) and the map
\* of its simple attributes that are not None (bento_meta Entity).
Ent(kind, attrs) == [kind |-> kind, attrs |-> attrs]

\* Entity.get_label(): the graph label of each class; an Edge is stored as
\* a "relationship" node.
Label(kind) == IF kind = "edge" THEN "relationship" ELSE kind

\* dict.pop(key, None) on a property map
Pop(props, key) == [k \in DOMAIN props \ {key} |-> props[k]]

\* f extended with key |-> v when v is not None (<<>> stands for None here)
With(f, key, v) ==
    IF v = <<>> THEN f
    ELSE [k \in DOMAIN f \cup {key} |-> IF k = key THEN v ELSE f[k]]

\* ------------------------------------------------- property-graph patterns
\* cypher_utils.py:73-76 and minicypher: pattern variables are numbered from
\* a counter that every builder resets first: n0, n1, ... and r0, r1, ...
NVar(i) == <<"n0", "n1", "n2", "n3", "n4", "n5", "n6", "n7">>[i + 1]
RVar(i) == <<"r0", "r1", "r2", "r3", "r4", "r5", "r6">>[i + 1]

\* minicypher N: a node pattern with its variable n<var>, label and props
N(var, label, props) == [t |-> "N", var |-> var, label |-> label, props |-> props]

\* N.plain_var(): the same variable with no label and no props
PlainVar(n) == [t |-> "N", var |-> n.var, label |-> "", props |-> <<>>]

\* minicypher R: a relationship pattern r<var> of a type
R(var, type) == [t |-> "R", var |-> var, type |-> type]

\* R.plain_var()
PlainRel(r) == [t |-> "R", var |-> r.var, type |-> ""]

\* minicypher T: a triple (src)-[rel]->(dst)
T(src, rel, dst) == [t |-> "T", src |-> src, rel |-> rel, dst |-> dst]

\* a property of a pattern variable with its value, as OnCreateSet renders it
P(var, key, value) == [t |-> "P", var |-> var, key |-> key, value |-> value]

\* one clause of a Statement
Clause(op, args) == [op |-> op, args |-> args]

\* cypher_utils.py:30-44  the pattern of an entity: label + simple attributes
CypherizeEntity(ent, var) == N(var, Label(ent.kind), ent.attrs)

MergeKinds == {"term", "value_set", "concept"}

\* A builder that leaves the commit marker inside the MERGE pattern.
CreateEntityCypherStmtKeepCommit(ent) ==
    LET attrs == EscapeQuotesInAttr(ent.attrs)
        ce0 == CypherizeEntity(Ent(ent.kind, attrs), NVar(0))
        ce1 == IF ent.kind = "property" /\ "_parent_handle" \in DOMAIN ce0.props
               THEN [ce0 EXCEPT !.props = Pop(@, "_parent_handle")]
               ELSE ce0
    IN  [attrs |-> attrs,
         stmt |-> IF ent.kind \in MergeKinds
                  THEN IF "_commit" \notin DOMAIN ce1.props
                       THEN <<Clause("MERGE", <<ce1>>)>>
                       ELSE <<Clause("MERGE", <<ce1>>),
                              Clause("ON CREATE SET",
                                     <<P(ce1.var, "_commit", ce1.props["_commit"])>>)>>
                  ELSE <<Clause("CREATE", <<ce1>>)>>,
         rollback |-> IF ent.kind \in MergeKinds
                      THEN <<Clause("RAW", <<"empty">>)>>
                      ELSE <<Clause("MATCH", <<ce1>>),
                             Clause("DETACH DELETE", <<PlainVar(ce1)>>)>>]

\* A builder whose isinstance test forgets Concept: a Concept is CREATEd
\* and paired with a deleting rollback.
CreateEntityCypherStmtConceptCreate(ent) ==
    LET attrs == EscapeQuotesInAttr(ent.attrs)
        ce0 == CypherizeEntity(Ent(ent.kind, attrs), NVar(0))
        ce1 == IF ent.kind = "property" /\ "_parent_handle" \in DOMAIN ce0.props
               THEN [ce0 EXCEPT !.props = Pop(@, "_parent_handle")]
               ELSE ce0
        merged == [ce1 EXCEPT !.props = Pop(@, "_commit")]
    IN  [attrs |-> attrs,
         stmt |-> IF ent.kind \in {"term", "value_set"}
                  THEN IF "_commit" \notin DOMAIN ce1.props
                       THEN <<Clause("MERGE", <<ce1>>)>>
                       ELSE <<Clause("MERGE", <<merged>>),
                              Clause("ON CREATE SET",
                                     <<P(ce1.var, "_commit", ce1.props["_commit"])>>)>>
                  ELSE <<Clause("CREATE", <<ce1>>)>>,
         rollback |-> IF ent.kind \in {"term", "value_set"}
                      THEN <<Clause("RAW", <<"empty">>)>>
                      ELSE <<Clause("MATCH", <<ce1>>),
                             Clause("DETACH DELETE", <<PlainVar(ce1)>>)>>]

\* cypher_utils.py:203-226  create_entity_cypher_stmt.  The result carries
\* the statement, its rollback and the entity's attributes as the call
\* leaves them (escape_quotes_in_attr rewrites them in place).
CreateEntityCypherStmt(ent) ==
    LET attrs == EscapeQuotesInAttr(ent.attrs)
        \* reset_pg_ent_counter(); cypherize_entity(entity) is n0
        ce0 == CypherizeEntity(Ent(ent.kind, attrs), NVar(0))
        ce1 == IF ent.kind = "property" /\ "_parent_handle" \in DOMAIN ce0.props
               THEN [ce0 EXCEPT !.props = Pop(@, "_parent_handle")]
               ELSE ce0
        merged == [ce1 EXCEPT !.props = Pop(@, "_commit")]
    IN  [attrs |-> attrs,
         stmt |-> IF ent.kind \in MergeKinds
                  THEN IF "_commit" \notin DOMAIN ce1.props
                       THEN <<Clause("MERGE", <<ce1>>)>>
                       ELSE <<Clause("MERGE", <<merged>>),
                              Clause("ON CREATE SET",
                                     <<P(ce1.var, "_commit", ce1.props["_commit"])>>)>>
                  ELSE <<Clause("CREATE", <<ce1>>)>>,
         rollback |-> IF ent.kind \in MergeKinds
                      THEN <<Clause("RAW", <<"empty">>)>>
                      ELSE <<Clause("MATCH", <<ce1>>),
                             Clause("DETACH DELETE", <<PlainVar(ce1)>>)>>]

\* cypher_utils.py:240-244  what create_relationship_cypher_stmt pops from
\* an endpoint pattern before it is used in a MATCH
StripEndpoint(n) ==
    LET a == IF n.label \in {"term", "value_set"} /\ "_commit" \in DOMAIN n.props
             THEN [n EXCEPT !.props = Pop(@, "_commit")] ELSE n
    IN  IF a.label = "property" /\ "_parent_handle" \in DOMAIN a.props
        THEN [a EXCEPT !.props = Pop(@, "_parent_handle")] ELSE a

\* A builder that CREATEs the edge instead of MERGEing it.
CreateRelationshipCypherStmtCreate(src, rel, dst) ==
    LET cypher_src == StripEndpoint(CypherizeEntity(src, NVar(0)))
        cypher_dst == StripEndpoint(CypherizeEntity(dst, NVar(1)))
        cypher_rel == R(RVar(0), rel)
    IN  [stmt |-> <<Clause("MATCH", <<cypher_src, cypher_dst>>),
                    Clause("CREATE", <<T(PlainVar(cypher_src), cypher_rel,
                                         PlainVar(cypher_dst))>>)>>,
         rollback |-> <<Clause("MATCH", <<T(cypher_src, cypher_rel, cypher_dst)>>),
                        Clause("DELETE", <<PlainRel(cypher_rel)>>)>>]

\* cypher_utils.py:229-250  create_relationship_cypher_stmt
CreateRelationshipCypherStmt(src, rel, dst) ==
    LET cypher_src == StripEndpoint(CypherizeEntity(src, NVar(0)))
        cypher_dst == StripEndpoint(CypherizeEntity(dst, NVar(1)))
        cypher_rel == R(RVar(0), rel)
    IN  [stmt |-> <<Clause("MATCH", <<cypher_src, cypher_dst>>),
                    Clause("MERGE", <<T(PlainVar(cypher_src), cypher_rel,
                                        PlainVar(cypher_dst))>>)>>,
         rollback |-> <<Clause("MATCH", <<T(cypher_src, cypher_rel, cypher_dst)>>),
                        Clause("DELETE", <<PlainRel(cypher_rel)>>)>>]


\* minicypher G: a path made of triples that share their middle nodes
G(t1, t2) == [t |-> "G", trips |-> <<t1, t2>>]

\* the tag pattern of a mapping source, cypher_utils.py:276-279
MappingSourceTag(var, mapping_source) ==
    N(var, "tag", [key |-> <<"mapping_source">>, value |-> mapping_source])

\* a FOREACH (_ IN CASE WHEN <var> IS [NOT] NULL THEN [1] ELSE [] END | body)
ForEach(var, isnull, body) ==
    [op |-> "FOREACH", args |-> <<[t |-> "WHEN", var |-> var, isnull |-> isnull]>>,
     body |-> body]

\* A resolver whose CASE looks at the first term's concept only.
GenerateCypherToLinkTermSynonymsFirstOnly(entity_1, entity_2, mapping_source, commit) ==
    LET cypher_ent_1 == CypherizeEntity(entity_1, NVar(0))
        cypher_ent_2 == CypherizeEntity(entity_2, NVar(1))
        cypher_concept_1 == N(NVar(2), "concept", <<>>)
        cypher_concept_2 == N(NVar(3), "concept", <<>>)
        ent_1_trip == T(PlainVar(cypher_ent_1), R(RVar(0), "represents"), cypher_concept_1)
        ent_2_trip == T(PlainVar(cypher_ent_2), R(RVar(1), "represents"), cypher_concept_2)
        concept_tag_trip_1 == T(cypher_concept_1, R(RVar(2), "has_tag"),
                                MappingSourceTag(NVar(4), mapping_source))
        concept_tag_trip_2 == T(cypher_concept_2, R(RVar(3), "has_tag"),
                                MappingSourceTag(NVar(5), mapping_source))
        new_concept == N(NVar(6), "concept", [_commit |-> commit])
        existing == N("existing_concept", "", <<>>)
    IN  << Clause("MATCH", << [cypher_ent_1 EXCEPT !.props = Pop(@, "_commit")],
                              [cypher_ent_2 EXCEPT !.props = Pop(@, "_commit")] >>),
           Clause("WHERE", <<PlainVar(cypher_ent_1), PlainVar(cypher_ent_2)>>),
           Clause("WITH", <<NVar(0), NVar(1)>>),
           Clause("OPTIONAL MATCH", <<G(ent_1_trip, concept_tag_trip_1)>>),
           Clause("WITH", <<NVar(0), NVar(1), NVar(2)>>),
           Clause("RAW", <<"LIMIT 1">>),
           Clause("OPTIONAL MATCH", <<G(ent_2_trip, concept_tag_trip_2)>>),
           Clause("WITH", <<NVar(0), NVar(1), NVar(2), NVar(3)>>),
           Clause("RAW", <<"LIMIT 1">>),
           Clause("WITH", <<NVar(0), NVar(1)>>),
           Clause("CASE", <<PlainVar(cypher_concept_1)>>),
           ForEach("existing_concept", FALSE,
               << Clause("MERGE", <<T(PlainVar(cypher_ent_1), R("", "represents"), existing)>>),
                  Clause("MERGE", <<T(PlainVar(cypher_ent_2), R("", "represents"), existing)>>) >>),
           ForEach("existing_concept", TRUE,
               << Clause("CREATE", <<new_concept>>),
                  Clause("CREATE", <<T(PlainVar(new_concept), R(RVar(4), "has_tag"),
                                       MappingSourceTag(NVar(7), mapping_source))>>),
                  Clause("CREATE", <<T(PlainVar(cypher_ent_1), R(RVar(5), "represents"),
                                       PlainVar(new_concept))>>),
                  Clause("CREATE", <<T(PlainVar(cypher_ent_2), R(RVar(6), "represents"),
                                       PlainVar(new_concept))>>) >>) >>

\* A resolver whose creation branch links only the first term to the new
\* concept.
GenerateCypherToLinkTermSynonymsOneEdge(entity_1, entity_2, mapping_source, commit) ==
    LET cypher_ent_1 == CypherizeEntity(entity_1, NVar(0))
        cypher_ent_2 == CypherizeEntity(entity_2, NVar(1))
        cypher_concept_1 == N(NVar(2), "concept", <<>>)
        cypher_concept_2 == N(NVar(3), "concept", <<>>)
        ent_1_trip == T(PlainVar(cypher_ent_1), R(RVar(0), "represents"), cypher_concept_1)
        ent_2_trip == T(PlainVar(cypher_ent_2), R(RVar(1), "represents"), cypher_concept_2)
        concept_tag_trip_1 == T(cypher_concept_1, R(RVar(2), "has_tag"),
                                MappingSourceTag(NVar(4), mapping_source))
        concept_tag_trip_2 == T(cypher_concept_2, R(RVar(3), "has_tag"),
                                MappingSourceTag(NVar(5), mapping_source))
        new_concept == N(NVar(6), "concept", [_commit |-> commit])
        existing == N("existing_concept", "", <<>>)
    IN  << Clause("MATCH", << [cypher_ent_1 EXCEPT !.props = Pop(@, "_commit")],
                              [cypher_ent_2 EXCEPT !.props = Pop(@, "_commit")] >>),
           Clause("WHERE", <<PlainVar(cypher_ent_1), PlainVar(cypher_ent_2)>>),
           Clause("WITH", <<NVar(0), NVar(1)>>),
           Clause("OPTIONAL MATCH", <<G(ent_1_trip, concept_tag_trip_1)>>),
           Clause("WITH", <<NVar(0), NVar(1), NVar(2)>>),
           Clause("RAW", <<"LIMIT 1">>),
           Clause("OPTIONAL MATCH", <<G(ent_2_trip, concept_tag_trip_2)>>),
           Clause("WITH", <<NVar(0), NVar(1), NVar(2), NVar(3)>>),
           Clause("RAW", <<"LIMIT 1">>),
           Clause("WITH", <<NVar(0), NVar(1)>>),
           Clause("CASE", <<PlainVar(cypher_concept_1), PlainVar(cypher_concept_2)>>),
           ForEach("existing_concept", FALSE,
               << Clause("MERGE", <<T(PlainVar(cypher_ent_1), R("", "represents"), existing)>>),
                  Clause("MERGE", <<T(PlainVar(cypher_ent_2), R("", "represents"), existing)>>) >>),
           ForEach("existing_concept", TRUE,
               << Clause("CREATE", <<new_concept>>),
                  Clause("CREATE", <<T(PlainVar(new_concept), R(RVar(4), "has_tag"),
                                       MappingSourceTag(NVar(7), mapping_source))>>),
                  Clause("CREATE", <<T(PlainVar(cypher_ent_1), R(RVar(5), "represents"),
                                       PlainVar(new_concept))>>) >>) >>

\* cypher_utils.py:253-340  generate_cypher_to_link_term_synonyms: the
\* clauses of the statement, in the order of the Statement(...) call.
\* The WHERE is n0 <> n1; the CASE lists the variables tried in turn for
\* existing_concept (WHEN n2 IS NOT NULL THEN n2 WHEN n3 IS NOT NULL THEN n3
\* ELSE NULL).
GenerateCypherToLinkTermSynonyms(entity_1, entity_2, mapping_source, commit) ==
    LET cypher_ent_1 == CypherizeEntity(entity_1, NVar(0))
        cypher_ent_2 == CypherizeEntity(entity_2, NVar(1))
        cypher_concept_1 == N(NVar(2), "concept", <<>>)
        cypher_concept_2 == N(NVar(3), "concept", <<>>)
        ent_1_trip == T(PlainVar(cypher_ent_1), R(RVar(0), "represents"), cypher_concept_1)
        ent_2_trip == T(PlainVar(cypher_ent_2), R(RVar(1), "represents"), cypher_concept_2)
        concept_tag_trip_1 == T(cypher_concept_1, R(RVar(2), "has_tag"),
                                MappingSourceTag(NVar(4), mapping_source))
        concept_tag_trip_2 == T(cypher_concept_2, R(RVar(3), "has_tag"),
                                MappingSourceTag(NVar(5), mapping_source))
        new_concept == N(NVar(6), "concept", [_commit |-> commit])
        existing == N("existing_concept", "", <<>>)
    IN  << Clause("MATCH", << [cypher_ent_1 EXCEPT !.props = Pop(@, "_commit")],
                              [cypher_ent_2 EXCEPT !.props = Pop(@, "_commit")] >>),
           Clause("WHERE", <<PlainVar(cypher_ent_1), PlainVar(cypher_ent_2)>>),
           Clause("WITH", <<NVar(0), NVar(1)>>),
           Clause("OPTIONAL MATCH", <<G(ent_1_trip, concept_tag_trip_1)>>),
           Clause("WITH", <<NVar(0), NVar(1), NVar(2)>>),
           Clause("RAW", <<"LIMIT 1">>),
           Clause("OPTIONAL MATCH", <<G(ent_2_trip, concept_tag_trip_2)>>),
           Clause("WITH", <<NVar(0), NVar(1), NVar(2), NVar(3)>>),
           Clause("RAW", <<"LIMIT 1">>),
           Clause("WITH", <<NVar(0), NVar(1)>>),
           Clause("CASE", <<PlainVar(cypher_concept_1), PlainVar(cypher_concept_2)>>),
           ForEach("existing_concept", FALSE,
               << Clause("MERGE", <<T(PlainVar(cypher_ent_1), R("", "represents"), existing)>>),
                  Clause("MERGE", <<T(PlainVar(cypher_ent_2), R("", "represents"), existing)>>) >>),
           ForEach("existing_concept", TRUE,
               << Clause("CREATE", <<new_concept>>),
                  Clause("CREATE", <<T(PlainVar(new_concept), R(RVar(4), "has_tag"),
                                       MappingSourceTag(NVar(7), mapping_source))>>),
                  Clause("CREATE", <<T(PlainVar(cypher_ent_1), R(RVar(5), "represents"),
                                       PlainVar(new_concept))>>),
                  Clause("CREATE", <<T(PlainVar(cypher_ent_2), R(RVar(6), "represents"),
                                       PlainVar(new_concept))>>) >>) >>

\* ------------------------------------------- what a statement does to a graph
\* The property graph the statements run against: nodes (id -> label and
\* properties) and a bag of edges <<src, type, dst>> (parallel edges count).
\* The operators below give the statements above the meaning Cypher gives
\* their clauses.
Max(S) == CHOOSE x \in S : \A y \in S : y <= x

\* A CASE that takes the last of its variables that is not NULL.
LastHit(S) == CHOOSE x \in S : \A y \in S : y <= x

\* the first WHEN of a CASE that holds
Min(S) == CHOOSE x \in S : \A y \in S : x <= y

Fresh(g) == Max(DOMAIN g.nodes \cup {0}) + 1

NodeMatches(g, id, pat) ==
    /\ pat.label = "" \/ g.nodes[id].label = pat.label
    /\ \A k \in DOMAIN pat.props :
          k \in DOMAIN g.nodes[id].props /\ g.nodes[id].props[k] = pat.props[k]

Matches(g, pat) == {id \in DOMAIN g.nodes : NodeMatches(g, id, pat)}

EdgeCount(g, s, type, d) == CopiesIn(<<s, type, d>>, g.edges)

AddEdge(g, s, type, d) == [g EXCEPT !.edges = @ (+) SetToBag({<<s, type, d>>})]

MergeEdge(g, s, type, d) ==
    IF EdgeCount(g, s, type, d) > 0 THEN g ELSE AddEdge(g, s, type, d)

AddNode(g, id, label, props) ==
    [g EXCEPT !.nodes = [i \in DOMAIN g.nodes \cup {id} |->
                            IF i = id THEN [label |-> label, props |-> props]
                            ELSE g.nodes[i]]]

Bind(env, var, id) ==
    [k \in DOMAIN env \cup {var} |-> IF k = var THEN id ELSE env[k]]

\* MATCH (src), (dst) followed by MERGE or CREATE of (src)-[:rel]->(dst):
\* one row for every pair of matching nodes; MERGE adds the edge where
\* there is none, CREATE adds it always.
ExecRelationshipStmt(stmt, g) ==
    LET trip == stmt[2].args[1]
        rows == Matches(g, stmt[1].args[1]) \X Matches(g, stmt[1].args[2])
        End(r, n) == IF n.var = stmt[1].args[1].var THEN r[1] ELSE r[2]
        add == { <<End(r, trip.src), trip.rel.type, End(r, trip.dst)>> : r \in
                   { r \in rows : \/ stmt[2].op = "CREATE"
                                  \/ EdgeCount(g, End(r, trip.src), trip.rel.type,
                                               End(r, trip.dst)) = 0 } }
    IN  [g EXCEPT !.edges = @ (+) SetToBag(add)]

RECURSIVE ExecBody(_, _, _)
\* the clauses of a FOREACH body, in order, with the variables bound so far
ExecBody(cl, env, g) ==
    IF cl = <<>> THEN g
    ELSE LET c == Head(cl)
             a == c.args[1]
         IN  IF c.op = "MERGE"
             THEN ExecBody(Tail(cl), env,
                           MergeEdge(g, env[a.src.var], a.rel.type, env[a.dst.var]))
             ELSE IF a.t = "N"
             THEN ExecBody(Tail(cl), Bind(env, a.var, Fresh(g)),
                           AddNode(g, Fresh(g), a.label, a.props))
             ELSE IF a.dst.var \in DOMAIN env
             THEN ExecBody(Tail(cl), env,
                           AddEdge(g, env[a.src.var], a.rel.type, env[a.dst.var]))
             ELSE ExecBody(Tail(cl), Bind(env, a.dst.var, Fresh(g)),
                           AddEdge(AddNode(g, Fresh(g), a.dst.label, a.dst.props),
                                   env[a.src.var], a.rel.type, Fresh(g)))

\* the nodes an OPTIONAL MATCH of the path (x)-[:represents]->(c:concept)
\* -[:has_tag]->(tag) binds to c, for the node x its first variable holds
PathConcepts(g, path, x) ==
    { c \in DOMAIN g.nodes :
        /\ EdgeCount(g, x, path.trips[1].rel.type, c) > 0
        /\ NodeMatches(g, c, path.trips[1].dst)
        /\ \E tg \in DOMAIN g.nodes :
              /\ EdgeCount(g, c, path.trips[2].rel.type, tg) > 0
              /\ NodeMatches(g, tg, path.trips[2].dst) }

\* an OPTIONAL MATCH that finds nothing keeps the row, with NULL (0)
OrNull(S) == IF S = {} THEN {0} ELSE S

\* The graphs the synonym-linking statement can leave.  MATCH and WHERE give
\* one row for every pair of distinct matching nodes; each LIMIT 1 keeps one
\* row of those it is given, whichever the database yields first; the CASE
\* takes the first of its variables that is not NULL; each FOREACH runs its
\* body once when its guard holds.
LinkOutcomes(stmt, g) ==
    LET rows == { r \in Matches(g, stmt[1].args[1]) \X Matches(g, stmt[1].args[2]) :
                    r[1] # r[2] }
        Run(r, c1, c2) ==
            LET found == (stmt[4].args[1].trips[1].dst.var :> c1)
                         @@ (stmt[7].args[1].trips[1].dst.var :> c2)
                when == stmt[11].args
                hits == { i \in 1..Len(when) : found[when[i].var] # 0 }
                ex == IF hits = {} THEN 0 ELSE found[when[Min(hits)].var]
                env == (stmt[1].args[1].var :> r[1]) @@ (stmt[1].args[2].var :> r[2])
                       @@ ("existing_concept" :> ex)
                g1 == IF stmt[12].args[1].isnull = (ex = 0)
                      THEN ExecBody(stmt[12].body, env, g) ELSE g
            IN  IF stmt[13].args[1].isnull = (ex = 0)
                THEN ExecBody(stmt[13].body, env, g1) ELSE g1
    IN  IF rows = {} THEN {g}
        ELSE UNION { UNION { { Run(r, c1, c2) :
                                 c2 \in OrNull(PathConcepts(g, stmt[7].args[1], r[2])) } :
                             c1 \in OrNull(PathConcepts(g, stmt[4].args[1], r[1])) } :
                     r \in rows }

\* ------------------------------------------------ ModelToChangelogConverter
\* An object of the model: its class, its simple attributes that are not
\* None, and its references to other objects (0: None; tags, terms and props
\* are the values of the dicts, in insertion order).
Obj(kind, attrs) ==
    [kind |-> kind, attrs |-> attrs, tags |-> <<>>, origin |-> 0, concept |-> 0,
     terms |-> <<>>, value_set |-> 0, props |-> <<>>, parent |-> 0,
     src |-> 0, dst |-> 0]

\* make_nanoid(): the k-th identifier made; they are all different
Nanoid(k) == << <<"nanoid-1", "nanoid-2", "nanoid-3", "nanoid-4", "nanoid-5",
                  "nanoid-6", "nanoid-7", "nanoid-8", "nanoid-9", "nanoid-10",
                  "nanoid-11", "nanoid-12">>[k] >>

\* the entity an object is for the statement builders
EntOf(heap, o) == Ent(heap[o].kind, heap[o].attrs)

\* bento_meta Entity equality, as `entity in self.added_entities` and
\* `prop in initial_props` use it: same class and same simple attributes
EntEq(heap, o1, o2) ==
    heap[o1].kind = heap[o2].kind /\ heap[o1].attrs = heap[o2].attrs

\* heap with object o's attribute key set to v
SetAttr(heap, o, key, v) == [heap EXCEPT ![o].attrs = With(@, key, v)]

\* heap with a new object; its id is NewId(heap)
NewId(heap) == Max(DOMAIN heap \cup {0}) + 1
Alloc(heap, obj) == [i \in DOMAIN heap \cup {NewId(heap)} |->
                        IF i = NewId(heap) THEN obj ELSE heap[i]]

\* A converter that never looks at added_entities.
GenerateCypherToAddEntityNoDedup(c, o) ==
    LET res == CreateEntityCypherStmt(EntOf(c.heap, o))
    IN  [c EXCEPT !.heap[o].attrs = res.attrs,
                  !.add_ents = Append(@, [stmt |-> res.stmt, rollback |-> res.rollback]),
                  !.added_entities = Append(@, o),
                  !.calls = Append(@, [obj |-> o, kind |-> c.heap[o].kind,
                                       attrs |-> c.heap[o].attrs, appended |-> TRUE])]

\* model_cypher.py:94-106  generate_cypher_to_add_entity.  c.calls records
\* every call: the object, its attributes on entry and whether a statement
\* was appended.
GenerateCypherToAddEntity(c, o) ==
    IF \E i \in 1..Len(c.added_entities) :
          c.added_entities[i] = o \/ EntEq(c.heap, o, c.added_entities[i])
    THEN [c EXCEPT !.calls = Append(@, [obj |-> o, kind |-> c.heap[o].kind,
                                        attrs |-> c.heap[o].attrs,
                                        appended |-> FALSE])]
    ELSE LET res == CreateEntityCypherStmt(EntOf(c.heap, o))
         IN  [c EXCEPT !.heap[o].attrs = res.attrs,
                       !.add_ents = Append(@, [stmt |-> res.stmt,
                                               rollback |-> res.rollback]),
                       !.added_entities = Append(@, o),
                       !.calls = Append(@, [obj |-> o, kind |-> c.heap[o].kind,
                                            attrs |-> c.heap[o].attrs,
                                            appended |-> TRUE])]

\* model_cypher.py:108-117  generate_cypher_to_add_relationship
GenerateCypherToAddRelationship(c, src, rel, dst) ==
    LET res == CreateRelationshipCypherStmt(EntOf(c.heap, src), rel, EntOf(c.heap, dst))
    IN  [c EXCEPT !.add_rels = Append(@, [stmt |-> res.stmt, rollback |-> res.rollback])]

\* c with a nanoid made for object o when it has none
EnsureNanoid(c, o) ==
    IF "nanoid" \in DOMAIN c.heap[o].attrs THEN c
    ELSE [c EXCEPT !.heap = SetAttr(@, o, "nanoid", Nanoid(c.nano + 1)),
                   !.nano = @ + 1]

\* one call of the walk still to be made: a function and its arguments
Call(f, a) == [f |-> f, a |-> a]

\* the calls f(x, y) for the objects y of a sequence, in order
CallEach(f, x, ys) == [i \in 1..Len(ys) |-> Call(f, <<x, ys[i]>>)]

\* concatenation of a sequence of sequences
RECURSIVE Flatten(_)
Flatten(seqs) == IF seqs = <<>> THEN <<>> ELSE Head(seqs) \o Flatten(Tail(seqs))

\* str.replace("\\'", "'") on one string
ReplaceEscapedQuote(val) == ReplacePair(val, "b", "q", <<"q">>)

\* the same replacement inside one pattern of a statement: the strings of a
\* rendered statement are the values of its patterns
RECURSIVE ReplaceInPattern(_)
ReplaceInPattern(x) ==
    CASE x.t = "N" -> [x EXCEPT !.props = [k \in DOMAIN x.props |->
                                              ReplaceEscapedQuote(x.props[k])]]
      [] x.t = "T" -> [x EXCEPT !.src = ReplaceInPattern(x.src),
                                !.dst = ReplaceInPattern(x.dst)]
      [] x.t = "G" -> [x EXCEPT !.trips = [i \in DOMAIN x.trips |->
                                              ReplaceInPattern(x.trips[i])]]
      [] x.t = "P" -> [x EXCEPT !.value = ReplaceEscapedQuote(x.value)]
      [] OTHER -> x

\* model_cypher.py:294, cde_cypher.py:85  str(stmt).replace("\\'", "'")
RECURSIVE ChangeText(_)
ChangeText(stmt) ==
    [i \in DOMAIN stmt |->
        IF stmt[i].op \in {"WITH", "RAW"} THEN stmt[i]
        ELSE IF stmt[i].op = "FOREACH"
             THEN [stmt[i] EXCEPT !.body = ChangeText(stmt[i].body)]
             ELSE [stmt[i] EXCEPT !.args = [j \in DOMAIN stmt[i].args |->
                                               ReplaceInPattern(stmt[i].args[j])]]]

\* model_cypher.py:78-81, 291  cypher_stmts.values(): the two lists in the
\* order the dict was built in
AllStatementsRelsFirst(c) == c.add_rels \o c.add_ents
AllStatements(c) == c.add_ents \o c.add_rels

\* model_cypher.py:288-303  one changeset per statement, numbered from 1
NumberChangesets(stmts, author, add_rollback) ==
    [i \in 1..Len(stmts) |->
        [id |-> ToString(i), author |-> author,
         text |-> ChangeText(stmts[i].stmt),
         rollback |-> IF add_rollback THEN stmts[i].rollback ELSE <<>>]]


\* A stamping pass that forgets the properties.
AddVersionToNodesAndEdges(heap, m) ==
    LET ents == {m.nodes[i] : i \in DOMAIN m.nodes}
                  \cup {m.edges[i] : i \in DOMAIN m.edges}
    IN  [o \in DOMAIN heap |->
            IF o \in ents /\ "version" \notin DOMAIN heap[o].attrs
            THEN [heap[o] EXCEPT !.attrs = With(@, "version", m.version)]
            ELSE heap[o]]

\* model_cypher.py:25-38  add_version_to_model_ents
AddVersionToModelEnts(heap, m) ==
    LET ents == {m.nodes[i] : i \in DOMAIN m.nodes}
                  \cup {m.edges[i] : i \in DOMAIN m.edges}
                  \cup {m.props[i].id : i \in DOMAIN m.props}
    IN  [o \in DOMAIN heap |->
            IF o \in ents /\ "version" \notin DOMAIN heap[o].attrs
            THEN [heap[o] EXCEPT !.attrs = With(@, "version", m.version)]
            ELSE heap[o]]

\* model_cypher.py:41-61  separate_shared_props from the i-th item of
\* model.props on, with the properties seen so far; a property already seen
\* is replaced, in its owner and in the model, by a duplicate (prop.dup()
\* copies the attributes and keeps the references)
RECURSIVE SeparateSharedProps(_, _, _, _)
SeparateSharedProps(c, m, i, seen) ==
    IF i > Len(m.props) THEN [c |-> c, m |-> m]
    ELSE LET prop == m.props[i].id
             owner == m.props[i].owner
         IN  IF \E s \in seen : EntEq(c.heap, prop, s)
             THEN LET new_prop == NewId(c.heap)
                      h1 == Alloc(c.heap, c.heap[prop])
                      renew == "nanoid" \in DOMAIN c.heap[prop].attrs
                      h2 == IF renew
                            THEN SetAttr(h1, new_prop, "nanoid", Nanoid(c.nano + 1))
                            ELSE h1
                      vs == c.heap[prop].value_set
                      h3 == IF vs # 0
                            THEN [Alloc(h2, h2[vs]) EXCEPT ![new_prop].value_set = NewId(h2)]
                            ELSE h2
                      h4 == [h3 EXCEPT ![owner].props[m.props[i].pos] = new_prop]
                  IN  IF c.heap[owner].kind # "node"
                      THEN [c |-> [c EXCEPT !.error = "KeyError"], m |-> m]
                      ELSE SeparateSharedProps(
                               [c EXCEPT !.heap = h4,
                                         !.nano = IF renew THEN @ + 1 ELSE @],
                               [m EXCEPT !.props[i].id = new_prop],
                               i + 1, seen)
             ELSE SeparateSharedProps(c, m, i + 1, seen \cup {prop})

\* ------------------------------------------- convert_model_cdes_to_changelog
\* cypher_utils.py:26-27; the commit marker carries the date of the run
DEFAULT_COMMIT == <<"CDEPV-yyyymmdd">>
DEFAULT_AUTHOR == <<"DEFAULT">>
BaseUrl == <<"https://cadsrapi.cancer.gov/rad/NCIAPI/1.0/api/DataElement/">>

\* dict.get(key, "") on an attribute map
GetOr(attrs, key) == IF key \in DOMAIN attrs THEN attrs[key] ELSE <<>>

\* cde_cypher.py:38-50  the ValueSet of the CDE of an annotation
CdeValueSet(annotation, commit) ==
    LET cde_attrs == annotation.annotation.attrs
        cde_id == GetOr(cde_attrs, "origin_id")
        cde_ver == GetOr(cde_attrs, "origin_version")
    IN  Ent("value_set",
            [url |-> BaseUrl \o cde_id
                       \o (IF cde_ver # <<>> THEN <<"?version=">> \o cde_ver ELSE <<>>),
             handle |-> cde_id \o <<"|">> \o cde_ver,
             _commit |-> commit])

\* A loop that links a synonym before the statement of its term.
SynonymStatementsLinkFirst(pv_term, synonyms, commit) ==
    Flatten([j \in DOMAIN synonyms |->
        LET mapping_source == IF GetOr(synonyms[j], "origin_name") = <<"NCIt">>
                              THEN <<"caDSR">> ELSE <<"NCIm">>
            res == CreateEntityCypherStmt(Ent("term", synonyms[j]))
        IN  <<GenerateCypherToLinkTermSynonyms(pv_term, Ent("term", res.attrs),
                                               mapping_source, commit),
              res.stmt>>])

\* cde_cypher.py:69-80  the statements of the synonyms of one permissible
\* value: each synonym term, then its link with the value's term
SynonymStatements(pv_term, synonyms, commit) ==
    Flatten([j \in DOMAIN synonyms |->
        LET mapping_source == IF GetOr(synonyms[j], "origin_name") = <<"NCIt">>
                              THEN <<"caDSR">> ELSE <<"NCIm">>
            res == CreateEntityCypherStmt(Ent("term", synonyms[j]))
        IN  <<res.stmt,
              GenerateCypherToLinkTermSynonyms(pv_term, Ent("term", res.attrs),
                                               mapping_source, commit)>>])

\* cde_cypher.py:57-68  the statements of one permissible value; an empty
\* one is skipped
PvStatements(cde_vs, pv, commit) ==
    IF DOMAIN pv = {} THEN <<>>
    ELSE LET synonyms == pv["synonyms"]
             res == CreateEntityCypherStmt(
                        Ent("term", With(Pop(pv, "synonyms"), "_commit", commit)))
             pv_term == Ent("term", res.attrs)
         IN  <<res.stmt, CreateRelationshipCypherStmt(cde_vs, "has_term", pv_term).stmt>>
             \o SynonymStatements(pv_term, synonyms, commit)

\* cde_cypher.py:83-93  one changeset per statement, numbered from changeset_id
Changesets(statements, changeset_id, author) ==
    [i \in 1..Len(statements) |->
        [id |-> ToString(changeset_id + (i - 1)), author |-> author,
         text |-> ChangeText(statements[i]), rollback |-> <<>>]]

\* An early return taken only when the value_set key is absent.
NoValueSetAbsentOnly(annotation) == "value_set" \notin DOMAIN annotation

\* cde_cypher.py:34-35  an annotation with no permissible values
NoValueSet(annotation) ==
    "value_set" \notin DOMAIN annotation \/ annotation["value_set"] = <<>>

\* cde_cypher.py:60  pv.pop("synonyms") raises KeyError when a value that
\* is not empty has no such key
PopFails(annotation) ==
    /\ ~NoValueSet(annotation)
    /\ \E i \in DOMAIN annotation["value_set"] :
          LET keys == DOMAIN annotation["value_set"][i]
          IN  keys # {} /\ "synonyms" \notin keys

\* A loop over the permissible values that ends at the first empty one.
ConvertAnnotationToChangesetsStopAtNull(annotation, changeset_id, author, commit) ==
    IF NoValueSet(annotation)
    THEN [changesets |-> <<>>, annotation |-> annotation]
    ELSE LET res == CreateEntityCypherStmt(CdeValueSet(annotation, commit))
             cde_vs == Ent("value_set", res.attrs)
             pvs == annotation["value_set"]
             live == { i \in DOMAIN pvs : \A j \in 1..i : DOMAIN pvs[j] # {} }
             statements == <<res.stmt>> \o
                 Flatten([i \in 1..Cardinality(live) |-> PvStatements(cde_vs, pvs[i], commit)])
         IN  [changesets |-> Changesets(statements, changeset_id, author),
              annotation |-> [annotation EXCEPT !["value_set"] =
                                 [i \in DOMAIN pvs |->
                                     IF i \notin live THEN pvs[i]
                                     ELSE Pop(pvs[i], "synonyms")]]]

\* cde_cypher.py:27-96  convert_annotation_to_changesets: the changesets
\* returned and the annotation as the call leaves it (the synonyms are
\* popped from its permissible values)
ConvertAnnotationToChangesets(annotation, changeset_id, author, commit) ==
    IF NoValueSet(annotation)
    THEN [changesets |-> <<>>, annotation |-> annotation]
    ELSE LET res == CreateEntityCypherStmt(CdeValueSet(annotation, commit))
             cde_vs == Ent("value_set", res.attrs)
             pvs == annotation["value_set"]
             statements == <<res.stmt>> \o
                 Flatten([i \in DOMAIN pvs |-> PvStatements(cde_vs, pvs[i], commit)])
         IN  [changesets |-> Changesets(statements, changeset_id, author),
              annotation |-> [annotation EXCEPT !["value_set"] =
                                 [i \in DOMAIN pvs |->
                                     IF DOMAIN pvs[i] = {} THEN pvs[i]
                                     ELSE Pop(pvs[i], "synonyms")]]]

\* A loop that starts every annotation's changesets from the same id.
NextChangesetIdStuck(changeset_id, changesets) == changeset_id

\* cde_cypher.py:120-122  changeset_id after the changesets of one annotation
NextChangesetId(changeset_id, changesets) == changeset_id + Len(changesets)

\* ------------------------------------------------------------ the parts
\* Each specification below drives one part of the compiler; the variables
\* of the other parts stay as these predicates set them.
EscIdle == esc_hist = <<>>
StIdle == st_ent = Ent("none", <<>>) /\ st_out = [fn |-> "idle"]
GIdle == graph = [nodes |-> <<>>, edges |-> EmptyBag] /\ glog = <<>>
CIdle == conv = <<>> /\ model = <<>> /\ todo = <<>> /\ changelog = <<>>
FIdle == fn_in = [fn |-> "idle"] /\ fn_out = [fn |-> "idle"]

\* ==================================================== escaping, on its own
\* One entity with a free-text attribute (desc) and a handle that may be
\* None; escape_quotes_in_attr is applied to it again and again.
EscInit ==
    /\ \E s \in StringsUpTo(MaxStrLen), h \in {<<>>, <<"a", "q">>} :
          esc_hist = << IF h = <<>> THEN [desc |-> s]
                        ELSE [desc |-> s, handle |-> h] >>
    /\ StIdle
    /\ GIdle
    /\ CIdle
    /\ FIdle

\* cypher_utils.py:47-70  one call of escape_quotes_in_attr(entity)
EscapePass ==
    /\ Len(esc_hist) >= 1
    /\ Len(esc_hist) <= MaxPasses
    /\ esc_hist' = Append(esc_hist, EscapeQuotesInAttr(esc_hist[Len(esc_hist)]))
    /\ UNCHANGED <<stVars, gVars, cVars, fVars>>

EscNext == EscapePass

SpecEscape == EscInit /\ [][EscNext]_vars

\* every ' and " of s is preceded by a backslash
AllQuotesEscaped(s) ==
    \A i \in 1..Len(s) : s[i] \in {"q", "d"} => (i > 1 /\ s[i-1] = "b")

\* C8: escape_quotes_in_attr is idempotent: every later pass leaves the
\* attributes as the first pass left them, and after a pass every single or
\* double quote of every string attribute is preceded by a backslash.
C8_EscapeIdempotent ==
    \A i \in 2..Len(esc_hist) :
        /\ esc_hist[i] = esc_hist[2]
        /\ \A k \in DOMAIN esc_hist[i] : AllQuotesEscaped(esc_hist[i][k])

\* C8 witness: a value with an unescaped ' and an escaped " went through
\* two passes.
C8_Witness ==
    /\ Len(esc_hist) >= 3
    /\ esc_hist[1].desc = <<"q", "b", "d">>

\* ======================================== the statement builders, on their own
Kinds == {"node", "edge", "property", "term", "value_set", "concept", "tag",
          "origin", "model"}

\* the attribute that names an entity of each class
MainKey(kind) ==
    CASE kind = "term" -> "value"
      [] kind = "tag" -> "value"
      [] kind = "concept" -> "nanoid"
      [] kind = "origin" -> "name"
      [] OTHER -> "handle"

AttrVals == StringsUpTo(MaxAttrLen) \ {<<>>}
CommitVals == {<<"CDEPV-TEST">>}
ParentHandles == {<<"owner">>}
Rels == {"has_term", "has_concept"}

\* the entities handed to the builders: every class, with or without a
\* commit marker and (a Property) with or without an owner handle
StmtEntities ==
    { Ent(kind, With(With(With(<<>>, MainKey(kind), v), "_commit", c),
                     "_parent_handle", ph)) :
        kind \in Kinds, v \in AttrVals, c \in CommitVals \cup {<<>>},
        ph \in ParentHandles \cup {<<>>} }

StInit ==
    /\ st_ent \in { e \in StmtEntities :
                      "_parent_handle" \in DOMAIN e.attrs => e.kind = "property" }
    /\ st_out = [fn |-> "none"]
    /\ EscIdle
    /\ GIdle
    /\ CIdle
    /\ FIdle

\* a call of create_entity_cypher_stmt(st_ent); the entity keeps the
\* escaped attributes
StCreateEntity ==
    /\ st_out.fn = "none"
    /\ LET res == CreateEntityCypherStmt(st_ent)
       IN  /\ st_out' = [fn |-> "create_entity", ent |-> st_ent, res |-> res]
           /\ st_ent' = [st_ent EXCEPT !.attrs = res.attrs]
    /\ UNCHANGED <<escVars, gVars, cVars, fVars>>

\* a call of create_relationship_cypher_stmt(st_ent, rel, dst)
StCreateRelationship ==
    /\ st_out.fn = "none"
    /\ \E dst \in StmtEntities, rel \in Rels :
          /\ "_parent_handle" \in DOMAIN dst.attrs => dst.kind = "property"
          /\ st_out' = [fn |-> "create_relationship", src |-> st_ent,
                        rel |-> rel, dst |-> dst,
                        res |-> CreateRelationshipCypherStmt(st_ent, rel, dst)]
    /\ UNCHANGED <<st_ent, escVars, gVars, cVars, fVars>>

StNext == StCreateEntity \/ StCreateRelationship

SpecStmt == StInit /\ [][StNext]_vars

\* C4: for a Term, ValueSet or Concept the MERGE pattern is the one built
\* for the same entity without its commit marker; the marker is not in the
\* pattern; with a marker c the statement is that MERGE followed only by
\* ON CREATE SET n0._commit = 'c', without one it is the MERGE alone.
C4_MergePatternIgnoresCommit ==
    (st_out.fn = "create_entity" /\ st_out.ent.kind \in MergeKinds) =>
        LET e == st_out.ent
            bare == CreateEntityCypherStmt(Ent(e.kind, Pop(e.attrs, "_commit")))
            merge == st_out.res.stmt[1]
        IN  /\ merge.op = "MERGE"
            /\ merge = bare.stmt[1]
            /\ "_commit" \notin DOMAIN merge.args[1].props
            /\ IF "_commit" \in DOMAIN e.attrs
               THEN st_out.res.stmt =
                      <<merge, Clause("ON CREATE SET",
                                      <<P(merge.args[1].var, "_commit",
                                          e.attrs["_commit"])>>)>>
               ELSE st_out.res.stmt = <<merge>>

\* C4 witness: a Concept with a commit marker was handed to the builder.
C4_Witness ==
    /\ st_out.fn = "create_entity"
    /\ st_out.ent.kind = "concept"
    /\ "_commit" \in DOMAIN st_out.ent.attrs

MutatingOps == {"CREATE", "MERGE", "DELETE", "DETACH DELETE", "SET",
                "ON CREATE SET"}

\* C5: a MERGE with a rollback that mutates nothing for exactly Term,
\* ValueSet and Concept; for every other class a CREATE of the pattern with
\* the rollback MATCH <same pattern> DETACH DELETE <same variable>.
C5_MergeOrCreateByKind ==
    st_out.fn = "create_entity" =>
        LET res == st_out.res
            pat == res.stmt[1].args[1]
        IN  IF st_out.ent.kind \in {"term", "value_set", "concept"}
            THEN /\ res.stmt[1].op = "MERGE"
                 /\ \A i \in 1..Len(res.stmt) : res.stmt[i].op # "CREATE"
                 /\ \A i \in 1..Len(res.rollback) :
                        res.rollback[i].op \notin MutatingOps
            ELSE /\ res.stmt = <<Clause("CREATE", <<pat>>)>>
                 /\ res.rollback = <<Clause("MATCH", <<pat>>),
                                     Clause("DETACH DELETE",
                                            <<N(pat.var, "", <<>>)>>)>>

\* C5 witness: a Concept was MERGEd.
C5_Witness ==
    /\ st_out.fn = "create_entity"
    /\ st_out.ent.kind = "concept"
    /\ st_out.res.stmt[1].op = "MERGE"

\* the endpoint patterns of the MATCH clauses of a statement
MatchEndpoints(stmt) ==
    UNION { UNION { IF stmt[i].args[j].t = "T"
                    THEN {stmt[i].args[j].src, stmt[i].args[j].dst}
                    ELSE {stmt[i].args[j]} : j \in 1..Len(stmt[i].args) } :
            i \in {i \in 1..Len(stmt) : stmt[i].op = "MATCH"} }

\* C7 (as claimed): no endpoint pattern of the MATCH of the forward or of
\* the rollback statement of create_relationship_cypher_stmt holds _commit
\* or _parent_handle, whatever the classes of the two entities.
C7_NoCommitNoOwnerInMatch ==
    st_out.fn = "create_relationship" =>
        \A n \in MatchEndpoints(st_out.res.stmt)
                   \cup MatchEndpoints(st_out.res.rollback) :
            /\ "_commit" \notin DOMAIN n.props
            /\ "_parent_handle" \notin DOMAIN n.props


\* ============================================ statements run on a database
LinkSource == <<"caDSR">>
OtherSource == <<"NCIm">>
TestCommit == <<"CDEPV-TEST">>

\* the permissible-value term (it carries the commit marker of the run) and
\* its synonym, as cde_cypher.py builds them
TermA == Ent("term", [value |-> <<"Mouse">>, _commit |-> TestCommit])
TermB == Ent("term", [value |-> <<"Mus">>])
AnyConcept == Ent("concept", <<>>)

ConceptIds == 4..(3 + MaxConcepts)

\* A database before the run: the two terms (nodes 1 and 2); with dup, a
\* second node that carries term A's attributes (node 3); concepts, each with
\* no mapping_source tag or one of either source; any set of represents
\* edges from the two terms to the concepts.
InitialGraph(dup, tags, reps) ==
    LET ids == {1, 2} \cup (IF dup THEN {3} ELSE {}) \cup ConceptIds
               \cup {c + MaxConcepts : c \in {c \in ConceptIds : tags[c] # <<>>}}
    IN  [nodes |-> [i \in ids |->
                      IF i = 1 THEN [label |-> "term",
                                     props |-> [value |-> <<"Mouse">>,
                                                _commit |-> <<"CDEPV-OLD">>]]
                      ELSE IF i = 2 THEN [label |-> "term",
                                          props |-> [value |-> <<"Mus">>]]
                      ELSE IF i = 3 THEN [label |-> "term",
                                          props |-> [value |-> <<"Mouse">>,
                                                     origin_name |-> <<"NCIt">>]]
                      ELSE IF i \in ConceptIds
                      THEN [label |-> "concept", props |-> <<>>]
                      ELSE [label |-> "tag",
                            props |-> [key |-> <<"mapping_source">>,
                                       value |-> tags[i - MaxConcepts]]]],
         edges |-> SetToBag({<<r[1], "represents", r[2]>> : r \in reps}
                            \cup {<<c, "has_tag", c + MaxConcepts>> :
                                    c \in {c \in ConceptIds : tags[c] # <<>>}})]

\* Concepts are interchangeable, so the tags are listed in one order only:
\* untagged concepts first, then those of the link source, then the others.
TagRank(tg) == IF tg = <<>> THEN 0 ELSE IF tg = LinkSource THEN 1 ELSE 2

GInit ==
    /\ \E dup \in BOOLEAN,
          tags \in [ConceptIds -> {<<>>, LinkSource, OtherSource}],
          reps \in SUBSET ({1, 2} \X ConceptIds) :
          /\ \A c \in ConceptIds, d \in ConceptIds :
                c < d => TagRank(tags[c]) <= TagRank(tags[d])
          /\ graph = InitialGraph(dup, tags, reps)
    /\ glog = <<>>
    /\ EscIdle
    /\ StIdle
    /\ CIdle
    /\ FIdle

\* the runner executes the forward statement of
\* create_relationship_cypher_stmt(src, rel, dst)
ExecCreateRelationship ==
    /\ Len(glog) < MaxExec
    /\ \E a \in { <<TermA, "represents", AnyConcept>>,
                  <<TermA, "has_synonym", TermB>> } :
          LET stmt == CreateRelationshipCypherStmt(a[1], a[2], a[3]).stmt
          IN  /\ graph' = ExecRelationshipStmt(stmt, graph)
              /\ glog' = Append(glog, [op |-> "rel", stmt |-> stmt,
                                       before |-> graph, source |-> <<>>,
                                       commit |-> <<>>])
    /\ UNCHANGED <<escVars, stVars, cVars, fVars>>

\* the runner executes the statement of
\* generate_cypher_to_link_term_synonyms(entity_1, entity_2, mapping_source,
\* _commit)
ExecLinkTermSynonyms ==
    /\ Len(glog) < MaxExec
    /\ \E a \in { <<TermA, TermB>>, <<TermB, TermA>>, <<TermA, TermA>> } :
          LET stmt == GenerateCypherToLinkTermSynonyms(a[1], a[2], LinkSource,
                                                       TestCommit)
          IN  /\ graph' \in LinkOutcomes(stmt, graph)
              /\ glog' = Append(glog, [op |-> "link", stmt |-> stmt,
                                       before |-> graph, source |-> LinkSource,
                                       commit |-> TestCommit])
    /\ UNCHANGED <<escVars, stVars, cVars, fVars>>

GNext == ExecCreateRelationship \/ ExecLinkTermSynonyms

SpecGraph == GInit /\ [][GNext]_vars

\* the graph the i-th statement of the log left
After(i) == IF i = Len(glog) THEN graph ELSE glog[i + 1].before

\* C6: the forward relationship statement is idempotent under re-run: run
\* again on the graph its first run left, it leaves that graph as it is (no
\* node and no edge is added), whatever graph the first run started from.
C6_RelationshipIdempotent ==
    \A i \in 2..Len(glog) :
        (/\ glog[i].op = "rel"
         /\ glog[i - 1].op = "rel"
         /\ glog[i].stmt = glog[i - 1].stmt) => After(i) = glog[i].before

\* C6 witness: a relationship statement whose first run added edges for
\* more than one matching pair was run a second time.
C6_Witness ==
    /\ Len(glog) = 2
    /\ glog[1].op = "rel"
    /\ glog[2].op = "rel"
    /\ glog[1].stmt = glog[2].stmt
    /\ BagCardinality(glog[2].before.edges)
          >= BagCardinality(glog[1].before.edges) + 2

\* the concepts x represents that carry a mapping_source tag of the source
TaggedConcepts(g, x, source) ==
    { c \in DOMAIN g.nodes :
        /\ g.nodes[c].label = "concept"
        /\ EdgeCount(g, x, "represents", c) > 0
        /\ \E tg \in DOMAIN g.nodes :
              /\ g.nodes[tg].label = "tag"
              /\ EdgeCount(g, c, "has_tag", tg) > 0
              /\ g.nodes[tg].props = [key |-> <<"mapping_source">>,
                                      value |-> source] }

\* the i-th statement is a link of two distinct terms: each of its MATCH
\* patterns selects one node, and the two nodes differ
LinksTwoTerms(i) ==
    /\ glog[i].op = "link"
    /\ Cardinality(Matches(glog[i].before, glog[i].stmt[1].args[1])) = 1
    /\ Cardinality(Matches(glog[i].before, glog[i].stmt[1].args[2])) = 1
    /\ Matches(glog[i].before, glog[i].stmt[1].args[1])
          # Matches(glog[i].before, glog[i].stmt[1].args[2])

TermNodeA(i) == CHOOSE x \in Matches(glog[i].before, glog[i].stmt[1].args[1]) : TRUE
TermNodeB(i) == CHOOSE x \in Matches(glog[i].before, glog[i].stmt[1].args[2]) : TRUE

\* exactly one of the two terms represents a concept tagged with the source
OneSideTagged(i) ==
    LET ca == TaggedConcepts(glog[i].before, TermNodeA(i), glog[i].source)
        cb == TaggedConcepts(glog[i].before, TermNodeB(i), glog[i].source)
    IN  (ca = {}) # (cb = {})

\* C9: existing-concept branch.  When exactly one of the two distinct terms
\* (term_a or term_b) represents a concept tagged with the mapping source,
\* the statement creates no node, and afterwards both terms represent such
\* a concept C that the term represented before; nothing else changes
\* (the only edges added are the missing represents edges to C).
C9_ExistingConceptBranch ==
    \A i \in 1..Len(glog) :
        (LinksTwoTerms(i) /\ OneSideTagged(i)) =>
            LET b == glog[i].before
                x == TermNodeA(i)
                y == TermNodeB(i)
            IN  /\ After(i).nodes = b.nodes
                /\ \E c \in TaggedConcepts(b, x, glog[i].source)
                            \cup TaggedConcepts(b, y, glog[i].source) :
                      /\ EdgeCount(After(i), x, "represents", c) > 0
                      /\ EdgeCount(After(i), y, "represents", c) > 0
                      /\ After(i) = MergeEdge(MergeEdge(b, x, "represents", c),
                                              y, "represents", c)

\* C9 witness: only term_b represented a tagged concept, and the statement
\* has run.
C9_Witness ==
    \E i \in 1..Len(glog) :
        /\ LinksTwoTerms(i)
        /\ TaggedConcepts(glog[i].before, TermNodeA(i), glog[i].source) = {}
        /\ TaggedConcepts(glog[i].before, TermNodeB(i), glog[i].source) # {}

\* C10: creation branch.  When neither of the two distinct terms represents
\* a concept tagged with the mapping source, the statement adds exactly two
\* nodes, a concept that carries the commit marker and a mapping_source tag
\* of the source, and exactly three edges: has_tag from the concept to the
\* tag and one represents edge from each term to the concept.
C10_CreationBranch ==
    \A i \in 1..Len(glog) :
        (/\ LinksTwoTerms(i)
         /\ TaggedConcepts(glog[i].before, TermNodeA(i), glog[i].source) = {}
         /\ TaggedConcepts(glog[i].before, TermNodeB(i), glog[i].source) = {}) =>
            LET b == glog[i].before
                a == After(i)
                new == DOMAIN a.nodes \ DOMAIN b.nodes
            IN  /\ \A n \in DOMAIN b.nodes : n \in DOMAIN a.nodes /\ a.nodes[n] = b.nodes[n]
                /\ \E c \in new, tg \in new :
                      /\ new = {c, tg}
                      /\ c # tg
                      /\ a.nodes[c] = [label |-> "concept",
                                       props |-> [_commit |-> glog[i].commit]]
                      /\ a.nodes[tg] = [label |-> "tag",
                                        props |-> [key |-> <<"mapping_source">>,
                                                   value |-> glog[i].source]]
                      /\ a.edges = b.edges
                            (+) SetToBag({ <<c, "has_tag", tg>>,
                                           <<TermNodeA(i), "represents", c>>,
                                           <<TermNodeB(i), "represents", c>> })

\* C10 witness: the statement has run on two terms of which one represented
\* a concept tagged with another source only.
C10_Witness ==
    \E i \in 1..Len(glog) :
        /\ LinksTwoTerms(i)
        /\ TaggedConcepts(glog[i].before, TermNodeA(i), glog[i].source) = {}
        /\ TaggedConcepts(glog[i].before, TermNodeB(i), glog[i].source) = {}
        /\ TaggedConcepts(glog[i].before, TermNodeA(i), OtherSource) # {}


\* ---------------------------------------------------- the two converters
MaxAnnotations == 3

\* the depth of nested calls the interpreter allows (sys.getrecursionlimit())
MaxDepth == 16

\* the string values a term of the model may have: plain, with a quote, with
\* a quote already escaped
TermValues == {<<"a">>, <<"a", "q">>, <<"a", "b", "q">>}

\* The objects of the model converted: two nodes, each with one property; the
\* second node's property is the first's own object ("same"), another object
\* with the same attributes ("equal") or another property ("different").  The
\* first property has a value set of two terms, which are one object or two,
\* with one origin; the first node has a tag and a concept that the second
\* term represents; an edge joins the nodes.
ModelHeap(v1, v2, share, one_term) ==
    << [Obj("node", [handle |-> <<"n1">>, model |-> <<"m">>])
           EXCEPT !.props = <<3>>, !.tags = <<11>>, !.concept = 8],
       [Obj("node", [handle |-> <<"n2">>, model |-> <<"m">>])
           EXCEPT !.props = <<IF share = "same" THEN 3 ELSE 4>>],
       [Obj("property", [handle |-> <<"p">>, model |-> <<"m">>])
           EXCEPT !.value_set = 5],
       Obj("property", [handle |-> IF share = "different" THEN <<"p2">> ELSE <<"p">>,
                        model |-> <<"m">>]),
       [Obj("value_set", [handle |-> <<"vs">>])
           EXCEPT !.terms = <<6, IF one_term THEN 6 ELSE 7>>],
       [Obj("term", [value |-> v1, origin_name |-> <<"NCIt">>]) EXCEPT !.origin = 10],
       [Obj("term", [value |-> v2, origin_name |-> <<"NCIt">>]) EXCEPT !.origin = 10],
       [Obj("concept", [nanoid |-> <<"c1">>]) EXCEPT !.terms = <<7>>],
       [Obj("edge", [handle |-> <<"e">>, model |-> <<"m">>])
           EXCEPT !.src = 1, !.dst = 2],
       Obj("origin", [name |-> <<"NCIt">>]),
       Obj("tag", [key |-> <<"k">>, value |-> <<"v">>]) >>

\* the same objects with a version of their own on the second node, the
\* properties and the edge
Versioned(heap, versioned) ==
    [o \in DOMAIN heap |->
        IF versioned /\ o \in {2, 3, 4, 9}
        THEN [heap[o] EXCEPT !.attrs = With(@, "version", <<"0.9">>)]
        ELSE heap[o]]

\* the same objects with a concept for a term of the value set: the first
\* term's ("acyclic": the concept's own term is the other one) or the second
\* term's ("cyclic": the term is the concept's own term)
Linked(heap, linked) ==
    [o \in DOMAIN heap |->
        IF (linked = "acyclic" /\ o = 6) \/ (linked = "cyclic" /\ o = 7)
        THEN [heap[o] EXCEPT !.concept = 8]
        ELSE heap[o]]

\* the Model of these objects and the arguments of the conversion
ModelOf(share, model_version, terms_only, add_rollback) ==
    [handle |-> <<"m">>, version |-> <<>>, uri |-> <<"uri">>,
     nodes |-> <<1, 2>>, edges |-> <<9>>,
     props |-> << [owner |-> 1, pos |-> 1, id |-> 3],
                  [owner |-> 2, pos |-> 1, id |-> IF share = "same" THEN 3 ELSE 4] >>,
     terms |-> <<7>>,
     model_version |-> model_version, latest_version |-> <<"False">>,
     terms_only |-> terms_only, add_rollback |-> add_rollback,
     author |-> <<"author">>, commit |-> <<>>, annotations |-> <<>>]

\* model_cypher.py:67-82  a new converter (which: the entry point run;
\* given: the objects as they were handed over)
Converter(which, heap) ==
    [which |-> which, heap |-> heap, added_entities |-> <<>>,
     add_ents |-> <<>>, add_rels |-> <<>>, calls |-> <<>>, nano |-> 0,
     changeset_id |-> 1, error |-> "none", given |-> heap]

\* the annotations of a model's CDEs: without the value_set key, with no
\* permissible value, with one value, with an empty value and one that has
\* a synonym, with two values that have two synonyms and one
Annotations ==
    LET cde == [attrs |-> [origin_id |-> <<"123">>, origin_version |-> <<"1">>]]
        old == [attrs |-> [origin_id |-> <<"45">>]]
        syn == [value |-> <<"s", "q">>, origin_name |-> <<"NCIt">>]
        syn2 == [value |-> <<"t">>, origin_name |-> <<"NCIm">>]
    IN  { [annotation |-> old],
          [annotation |-> cde, value_set |-> <<>>],
          [annotation |-> old,
           value_set |-> << [value |-> <<"a", "q">>, synonyms |-> <<>>] >>],
          [annotation |-> cde,
           value_set |-> << <<>>, [value |-> <<"a">>, synonyms |-> <<syn>>] >>],
          [annotation |-> cde,
           value_set |-> << [value |-> <<"a">>, synonyms |-> <<syn, syn2>>],
                            [value |-> <<"d">>, synonyms |-> <<syn>>] >>] }

\* model_cypher.py:252-286 / cde_cypher.py:99-111  the start of a conversion
\* of a model, or of the annotations of a model's CDEs
CInit ==
    /\ EscIdle
    /\ StIdle
    /\ GIdle
    /\ FIdle
    /\ changelog = <<>>
    /\ \/ \E v1 \in TermValues, v2 \in TermValues,
             share \in {"same", "equal", "different"}, one_term \in BOOLEAN,
             model_version \in {<<>>, <<"1.0">>}, terms_only \in BOOLEAN,
             add_rollback \in BOOLEAN, versioned \in BOOLEAN,
             linked \in {"none", "acyclic", "cyclic"} :
             /\ linked # "none" =>
                   v1 = <<"a">> /\ v2 = <<"a", "q">> /\ ~versioned /\ add_rollback
             /\ conv = Converter("model",
                    Linked(Versioned(ModelHeap(v1, v2, share, one_term), versioned),
                           linked))
             /\ model = ModelOf(share, model_version, terms_only, add_rollback)
             /\ todo = <<Call("separate_shared_props", <<>>),
                         Call("set_model_version", <<>>)>>
                       \o (IF terms_only
                           THEN <<Call("process_terms_model", <<>>)>>
                           ELSE <<Call("process_model_nodes", <<>>),
                                  Call("process_model_edges", <<>>)>>)
                       \o <<Call("number_changesets", <<>>)>>
       \/ \E n \in 0..MaxAnnotations : \E annotations \in [1..n -> Annotations] :
             /\ conv = Converter("cdes", <<>>)
             /\ model = [ModelOf("same", <<>>, FALSE, FALSE)
                            EXCEPT !.nodes = <<>>, !.edges = <<>>, !.props = <<>>,
                                   !.terms = <<>>, !.author = DEFAULT_AUTHOR,
                                   !.commit = DEFAULT_COMMIT,
                                   !.annotations = annotations]
             /\ todo = [i \in 1..n |-> Call("convert_annotation", <<i>>)]

\* how deep in the nesting of calls a call is made
Depth(call) == IF "d" \in DOMAIN call THEN call.d ELSE 0

\* the call made next, and the calls left once it has made the calls cs,
\* which are one level deeper
Running(f) == todo # <<>> /\ Head(todo).f = f /\ Depth(Head(todo)) <= MaxDepth
Arg(i) == Head(todo).a[i]
Then(cs) ==
    [i \in DOMAIN cs |-> [f |-> cs[i].f, a |-> cs[i].a, d |-> Depth(Head(todo)) + 1]]
       \o Tail(todo)

\* the three calls that follow an entity in several walks
TagsOriginConcept(o) ==
    <<Call("process_tags", <<o>>), Call("process_origin", <<o>>),
      Call("process_concept", <<o>>)>>

\* model_cypher.py:275, 41-61  separate_shared_props(self.model); a KeyError
\* ends the conversion
RunSeparateSharedProps ==
    /\ Running("separate_shared_props")
    /\ LET res == SeparateSharedProps(conv, model, 1, {})
       IN  /\ conv' = res.c
           /\ model' = res.m
           /\ todo' = IF res.c.error = "none" THEN Then(<<>>) ELSE <<>>
    /\ UNCHANGED <<changelog, escVars, stVars, gVars, fVars>>

\* model_cypher.py:278-280, 233-250  set_model_version
SetModelVersion ==
    /\ Running("set_model_version")
    /\ LET m == IF model.model_version # <<>>
                THEN [model EXCEPT !.version = model.model_version] ELSE model
           model_ent == NewId(conv.heap)
           attrs == With(With(With(With([latest_version |-> m.latest_version],
                        "repository", m.uri), "handle", m.handle),
                        "version", m.version), "name", m.handle)
           c1 == GenerateCypherToAddEntity(
                     [conv EXCEPT !.heap = Alloc(@, Obj("model", attrs))], model_ent)
       IN  /\ model' = m
           /\ conv' = IF "version" \in DOMAIN c1.heap[model_ent].attrs
                      THEN [c1 EXCEPT !.heap = AddVersionToModelEnts(@, m)]
                      ELSE c1
    /\ todo' = Then(<<>>)
    /\ UNCHANGED <<changelog, escVars, stVars, gVars, fVars>>

\* model_cypher.py:197-199  process_model_nodes: the loop
ProcessModelNodes ==
    /\ Running("process_model_nodes")
    /\ todo' = Then([i \in DOMAIN model.nodes |-> Call("process_node", <<model.nodes[i]>>)])
    /\ UNCHANGED <<conv, model, changelog, escVars, stVars, gVars, fVars>>

\* model_cypher.py:200-203  process_model_nodes: one node
ProcessNode ==
    /\ Running("process_node")
    /\ LET node == Arg(1)
       IN  /\ conv' = GenerateCypherToAddEntity(conv, node)
           /\ todo' = Then(<<Call("process_tags", <<node>>),
                             Call("process_concept", <<node>>),
                             Call("process_props", <<node>>)>>)
    /\ UNCHANGED <<model, changelog, escVars, stVars, gVars, fVars>>

\* model_cypher.py:205-207  process_model_edges: the loop
ProcessModelEdges ==
    /\ Running("process_model_edges")
    /\ todo' = Then([i \in DOMAIN model.edges |-> Call("process_edge", <<model.edges[i]>>)])
    /\ UNCHANGED <<conv, model, changelog, escVars, stVars, gVars, fVars>>

\* model_cypher.py:208-215  process_model_edges: one edge
ProcessEdge ==
    /\ Running("process_edge")
    /\ LET edge == Arg(1)
           c1 == GenerateCypherToAddEntity(EnsureNanoid(conv, edge), edge)
           c2 == GenerateCypherToAddRelationship(c1, edge, "has_src", c1.heap[edge].src)
       IN  /\ conv' = GenerateCypherToAddRelationship(c2, edge, "has_dst",
                                                      c2.heap[edge].dst)
           /\ todo' = Then(<<Call("process_tags", <<edge>>),
                             Call("process_concept", <<edge>>),
                             Call("process_props", <<edge>>)>>)
    /\ UNCHANGED <<model, changelog, escVars, stVars, gVars, fVars>>

\* model_cypher.py:119-123  process_tags: the loop
ProcessTags ==
    /\ Running("process_tags")
    /\ LET tags == conv.heap[Arg(1)].tags
       IN  todo' = Then(CallEach("process_tag", Arg(1), tags))
    /\ UNCHANGED <<conv, model, changelog, escVars, stVars, gVars, fVars>>

\* model_cypher.py:124-129  process_tags: one tag
ProcessTag ==
    /\ Running("process_tag")
    /\ LET entity == Arg(1)
           tag == Arg(2)
           c1 == EnsureNanoid(conv, tag)
           c2 == [c1 EXCEPT !.heap[tag].parent = IF @ = 0 THEN entity ELSE @]
           c3 == GenerateCypherToAddEntity(c2, tag)
       IN  conv' = GenerateCypherToAddRelationship(c3, entity, "has_tag", tag)
    /\ todo' = Then(<<>>)
    /\ UNCHANGED <<model, changelog, escVars, stVars, gVars, fVars>>

\* model_cypher.py:131-137  process_origin
ProcessOrigin ==
    /\ Running("process_origin")
    /\ LET entity == Arg(1)
           origin == conv.heap[entity].origin
       IN  IF origin = 0
           THEN conv' = conv /\ todo' = Then(<<>>)
           ELSE /\ conv' = GenerateCypherToAddRelationship(
                               GenerateCypherToAddEntity(conv, origin),
                               entity, "has_origin", origin)
                /\ todo' = Then(<<Call("process_tags", <<origin>>)>>)
    /\ UNCHANGED <<model, changelog, escVars, stVars, gVars, fVars>>

\* model_cypher.py:139-143  process_terms: the loop
ProcessTerms ==
    /\ Running("process_terms")
    /\ LET terms == conv.heap[Arg(1)].terms
       IN  todo' = Then(CallEach("process_term", Arg(1), terms))
    /\ UNCHANGED <<conv, model, changelog, escVars, stVars, gVars, fVars>>

\* model_cypher.py:144-151  process_terms: one term
ProcessTerm ==
    /\ Running("process_term")
    /\ LET entity == Arg(1)
           term == Arg(2)
           c1 == GenerateCypherToAddEntity(conv, term)
       IN  conv' = IF c1.heap[entity].kind = "concept"
                   THEN GenerateCypherToAddRelationship(c1, term, "represents", entity)
                   ELSE GenerateCypherToAddRelationship(c1, entity, "has_term", term)
    /\ todo' = Then(TagsOriginConcept(Arg(2)))
    /\ UNCHANGED <<model, changelog, escVars, stVars, gVars, fVars>>

\* model_cypher.py:153-164  process_concept
ProcessConcept ==
    /\ Running("process_concept")
    /\ LET entity == Arg(1)
           concept == conv.heap[entity].concept
           tags == conv.heap[concept].tags
           tag == NewId(conv.heap)
           c1 == IF \E i \in DOMAIN tags :
                       conv.heap[tags[i]].attrs["key"] = <<"mapping_source">>
                 THEN conv
                 ELSE [conv EXCEPT
                          !.heap = [Alloc(@, Obj("tag", [key |-> <<"mapping_source">>,
                                                         value |-> model.handle]))
                                       EXCEPT ![concept].tags = Append(@, tag)]]
       IN  IF concept = 0
           THEN conv' = conv /\ todo' = Then(<<>>)
           ELSE /\ conv' = GenerateCypherToAddRelationship(
                               GenerateCypherToAddEntity(c1, concept),
                               entity, "has_concept", concept)
                /\ todo' = Then(<<Call("process_tags", <<concept>>),
                                  Call("process_terms", <<concept>>)>>)
    /\ UNCHANGED <<model, changelog, escVars, stVars, gVars, fVars>>

\* model_cypher.py:166-180  process_value_set
ProcessValueSet ==
    /\ Running("process_value_set")
    /\ LET entity == Arg(1)
           value_set == conv.heap[entity].value_set
       IN  IF value_set = 0
           THEN conv' = conv /\ todo' = Then(<<>>)
           ELSE /\ conv' = GenerateCypherToAddRelationship(
                               GenerateCypherToAddEntity(EnsureNanoid(conv, value_set),
                                                         value_set),
                               entity, "has_value_set", value_set)
                /\ todo' = Then(<<Call("process_tags", <<value_set>>),
                                  Call("process_origin", <<value_set>>),
                                  Call("process_terms", <<value_set>>)>>)
    /\ UNCHANGED <<model, changelog, escVars, stVars, gVars, fVars>>

\* model_cypher.py:182-186  process_props: the loop
ProcessProps ==
    /\ Running("process_props")
    /\ LET props == conv.heap[Arg(1)].props
       IN  todo' = Then(CallEach("process_prop", Arg(1), props))
    /\ UNCHANGED <<conv, model, changelog, escVars, stVars, gVars, fVars>>

\* model_cypher.py:187-195  process_props: one property
ProcessProp ==
    /\ Running("process_prop")
    /\ LET entity == Arg(1)
           prop == Arg(2)
           c1 == EnsureNanoid(conv, prop)
           c2 == IF "_parent_handle" \in DOMAIN c1.heap[prop].attrs THEN c1
                 ELSE [c1 EXCEPT !.heap = SetAttr(@, prop, "_parent_handle",
                                                  GetOr(c1.heap[entity].attrs, "handle"))]
           c3 == GenerateCypherToAddEntity(c2, prop)
       IN  /\ conv' = GenerateCypherToAddRelationship(c3, entity, "has_property", prop)
           /\ todo' = Then(<<Call("process_tags", <<prop>>),
                             Call("process_concept", <<prop>>),
                             Call("process_value_set", <<prop>>)>>)
    /\ UNCHANGED <<model, changelog, escVars, stVars, gVars, fVars>>

\* A terms-only walk that also walks the value sets of the properties.
ProcessTermsModelWithValueSets ==
    /\ Running("process_terms_model")
    /\ todo' = Then([i \in DOMAIN model.props |->
                        Call("process_value_set", <<model.props[i].id>>)]
                    \o [i \in DOMAIN model.terms |->
                          Call("process_model_term", <<model.terms[i]>>)])
    /\ UNCHANGED <<conv, model, changelog, escVars, stVars, gVars, fVars>>

\* model_cypher.py:217-227  process_terms_model: the loop over the terms of
\* the properties (a Property's terms are its value set's), then the model's
ProcessTermsModel ==
    /\ Running("process_terms_model")
    /\ LET prop_terms == [i \in DOMAIN model.props |->
                            LET vs == conv.heap[model.props[i].id].value_set
                            IN  IF vs = 0 THEN <<>> ELSE conv.heap[vs].terms]
           terms == Flatten(prop_terms) \o model.terms
       IN  todo' = Then([i \in DOMAIN terms |-> Call("process_model_term", <<terms[i]>>)])
    /\ UNCHANGED <<conv, model, changelog, escVars, stVars, gVars, fVars>>

\* model_cypher.py:228-231  process_terms_model: one term
ProcessModelTerm ==
    /\ Running("process_model_term")
    /\ conv' = GenerateCypherToAddEntity(conv, Arg(1))
    /\ todo' = Then(TagsOriginConcept(Arg(1)))
    /\ UNCHANGED <<model, changelog, escVars, stVars, gVars, fVars>>

\* model_cypher.py:288-305  the changelog of the statements collected
ReturnChangelog ==
    /\ Running("number_changesets")
    /\ changelog' = NumberChangesets(AllStatements(conv), model.author,
                                     model.add_rollback)
    /\ todo' = Then(<<>>)
    /\ UNCHANGED <<conv, model, escVars, stVars, gVars, fVars>>

\* cde_cypher.py:111-125  convert_model_cdes_to_changelog: one annotation;
\* a KeyError ends the conversion
ConvertAnnotation ==
    /\ Running("convert_annotation")
    /\ LET i == Arg(1)
           res == ConvertAnnotationToChangesets(model.annotations[i],
                      conv.changeset_id, model.author, model.commit)
       IN  IF PopFails(model.annotations[i])
           THEN /\ conv' = [conv EXCEPT !.error = "KeyError"]
                /\ todo' = <<>>
                /\ UNCHANGED <<model, changelog, fVars>>
           ELSE /\ model' = [model EXCEPT !.annotations[i] = res.annotation]
                /\ conv' = [conv EXCEPT !.changeset_id =
                                           NextChangesetId(@, res.changesets)]
                /\ changelog' = changelog \o res.changesets
                /\ todo' = Then(<<>>)
    /\ UNCHANGED <<escVars, stVars, gVars, fVars>>

\* a call nested deeper than the interpreter allows raises RecursionError,
\* which nothing in the walk catches
RecursionLimit ==
    /\ todo # <<>>
    /\ Depth(Head(todo)) > MaxDepth
    /\ conv' = [conv EXCEPT !.error = "RecursionError"]
    /\ todo' = <<>>
    /\ UNCHANGED <<model, changelog, escVars, stVars, gVars, fVars>>

CNext ==
    \/ RecursionLimit
    \/ RunSeparateSharedProps
    \/ SetModelVersion
    \/ ProcessModelNodes
    \/ ProcessNode
    \/ ProcessModelEdges
    \/ ProcessEdge
    \/ ProcessTags
    \/ ProcessTag
    \/ ProcessOrigin
    \/ ProcessTerms
    \/ ProcessTerm
    \/ ProcessConcept
    \/ ProcessValueSet
    \/ ProcessProps
    \/ ProcessProp
    \/ ProcessTermsModel
    \/ ProcessModelTerm
    \/ ReturnChangelog
    \/ ConvertAnnotation

Init == CInit
Next == CNext
Spec == Init /\ [][Next]_vars

\* C1: in every changelog produced by convert_model_to_changelog or by
\* convert_model_cdes_to_changelog, whatever annotations are skipped, the
\* changeset at position i (from 0) has id str(i+1).
C1_SequentialIds ==
    \A i \in 1..Len(changelog) : changelog[i].id = ToString(i)

\* three annotations converted, the middle one skipped, the other two not
C1_Witness ==
    /\ conv.which = "cdes"
    /\ todo = <<>>
    /\ conv.error = "none"
    /\ Len(model.annotations) = 3
    /\ NoValueSet(model.annotations[2])
    /\ ~NoValueSet(model.annotations[1])
    /\ ~NoValueSet(model.annotations[3])
    /\ Len(changelog) >= 6

\* what a changeset does, read from its first clauses
IsEntityChange(cs) == cs.text[1].op \in {"CREATE", "MERGE"}
IsRelationshipChange(cs) ==
    Len(cs.text) = 2 /\ cs.text[1].op = "MATCH" /\ cs.text[2].op = "MERGE"

\* the number an id is the decimal form of
IdOf(cs) == CHOOSE n \in 0..(Len(changelog) + 1) : ToString(n) = cs.id

\* C2: in every changelog produced by convert_model_to_changelog, every
\* entity-creation changeset has a smaller id than every relationship
\* changeset.
C2_EntitiesBeforeRelationships ==
    conv.which = "model" =>
        \A i, j \in 1..Len(changelog) :
            IsEntityChange(changelog[i]) /\ IsRelationshipChange(changelog[j])
                => IdOf(changelog[i]) < IdOf(changelog[j])

\* a changelog of a whole model, whose walk made a relationship statement
\* (the first node's has_tag) before most entity statements
C2_Witness ==
    /\ conv.which = "model"
    /\ ~model.terms_only
    /\ todo = <<>>
    /\ \E i, j \in 1..Len(changelog) :
          IsEntityChange(changelog[i]) /\ IsRelationshipChange(changelog[j])
    /\ Len(conv.add_ents) > 2
    /\ Len(conv.add_rels) > 2

\* C3: on one converter, a call of generate_cypher_to_add_entity with an
\* entity that an earlier call was made with (the same object, or another
\* object of the same class with the same attribute map when it is passed)
\* appends no statement.
C3_ValueEqualAddedOnce ==
    \A i, j \in 1..Len(conv.calls) :
        /\ i < j
        /\ \/ conv.calls[i].obj = conv.calls[j].obj
           \/ /\ conv.calls[i].kind = conv.calls[j].kind
              /\ conv.calls[i].attrs = conv.calls[j].attrs
        => ~conv.calls[j].appended


\* ------------------------------------------- the link statement run again
\* the i-th statement is the link statement the (i-1)-th was, run on the
\* graph that one left
Rerun(i) ==
    /\ i >= 2
    /\ glog[i].op = "link"
    /\ glog[i - 1].op = "link"
    /\ glog[i].stmt = glog[i - 1].stmt

\* C11: the synonym-linking statement is safe to re-run: executed again on
\* the graph its first execution left, it adds no concept, no tag and no
\* represents edge, whatever the initial graph (a term may already represent
\* several concepts tagged with the mapping source).
C11_RerunAddsNothing ==
    \A i \in 1..Len(glog) : Rerun(i) => After(i) = glog[i].before


\* the two terms of the i-th statement each represent one concept tagged
\* with the source, and the two concepts differ
BothSidesTagged(i) ==
    LET ca == TaggedConcepts(glog[i].before, TermNodeA(i), glog[i].source)
        cb == TaggedConcepts(glog[i].before, TermNodeB(i), glog[i].source)
    IN  Cardinality(ca) = 1 /\ Cardinality(cb) = 1 /\ ca # cb

\* C12: tie-break.  When term_a and term_b already represent two different
\* concepts Ca and Cb, both tagged with the mapping source, the statement
\* takes Ca: term_b gains a represents edge to Ca, term_a gains no edge to
\* Cb, no node is created and Ca and Cb both stay.
C12_TermASideWins ==
    \A i \in 1..Len(glog) :
        (LinksTwoTerms(i) /\ BothSidesTagged(i)) =>
            LET b == glog[i].before
                x == TermNodeA(i)
                y == TermNodeB(i)
                Ca == CHOOSE c \in TaggedConcepts(b, x, glog[i].source) : TRUE
                Cb == CHOOSE c \in TaggedConcepts(b, y, glog[i].source) : TRUE
            IN  /\ After(i).nodes = b.nodes
                /\ EdgeCount(After(i), y, "represents", Ca) = 1
                /\ EdgeCount(After(i), x, "represents", Cb)
                      = EdgeCount(b, x, "represents", Cb)
                /\ After(i) = MergeEdge(b, y, "represents", Ca)

\* C12 witness: the statement has run on two terms that represented two
\* different tagged concepts, neither term representing the other's.
C12_Witness ==
    \E i \in 1..Len(glog) :
        /\ LinksTwoTerms(i)
        /\ BothSidesTagged(i)
        /\ After(i) # glog[i].before
        /\ \A c \in TaggedConcepts(glog[i].before, TermNodeB(i), glog[i].source) :
              EdgeCount(glog[i].before, TermNodeA(i), "represents", c) = 0


\* ------------------------------------------ link statements in two orders
\* graphs g and h are the same up to the identity of the nodes that are not
\* in old: some renaming of those nodes turns g into h
SameUpToNewNodes(g, h, old) ==
    LET new == DOMAIN g.nodes \ old
    IN  /\ DOMAIN g.nodes = DOMAIN h.nodes
        /\ BagCardinality(g.edges) = BagCardinality(h.edges)
        /\ \E pi \in Permutations(new) :
              LET f(n) == IF n \in new THEN pi[n] ELSE n
              IN  /\ \A n \in DOMAIN g.nodes : h.nodes[f(n)] = g.nodes[n]
                  /\ \A e \in BagToSet(g.edges) :
                        CopiesIn(<<f(e[1]), e[2], f(e[3])>>, h.edges)
                           = CopiesIn(e, g.edges)

\* two different link statements were run, one after the other
TwoLinksRun ==
    /\ Len(glog) = 2
    /\ glog[1].op = "link"
    /\ glog[2].op = "link"
    /\ glog[1].stmt # glog[2].stmt

\* the graphs the same two statements can leave when the second is run first
OtherOrderOutcomes ==
    UNION { LinkOutcomes(glog[1].stmt, g) :
              g \in LinkOutcomes(glog[2].stmt, glog[1].before) }

\* C13: link statements over one mapping source reach the same final graph
\* in any order of execution: the graph two statements left is, up to the
\* identity of the nodes created, a graph the other order leaves too.
C13_OrderConverges ==
    TwoLinksRun =>
        \E h \in OtherOrderOutcomes :
            SameUpToNewNodes(graph, h, DOMAIN glog[1].before.nodes)


\* the i-th statement links a term with an attribute-identical one: its two
\* MATCH patterns have the same label and properties
SelfLink(i) ==
    /\ glog[i].op = "link"
    /\ glog[i].stmt[1].args[1].label = glog[i].stmt[1].args[2].label
    /\ glog[i].stmt[1].args[1].props = glog[i].stmt[1].args[2].props

\* C14: self-link guard.  When term_a and term_b are attribute-identical
\* (both MATCH patterns are the same), the synonym-linking statement leaves
\* the graph as it is: no concept, tag or represents edge is added.
C14_SelfLinkNoOp ==
    \A i \in 1..Len(glog) : SelfLink(i) => After(i) = glog[i].before


\* ------------------------------------------- annotations with no values
\* an annotation record whose value_set is absent or an empty list
EmptyOrAbsent(annotation) ==
    "value_set" \in DOMAIN annotation => Len(annotation["value_set"]) = 0

\* the annotations convert_model_cdes_to_changelog has converted so far
Converted == 1..(Len(model.annotations) - Len(todo))

\* C15: convert_annotation_to_changesets returns an empty list, without
\* raising, for an annotation whose value_set is empty or absent: as long as
\* convert_model_cdes_to_changelog has met only such annotations, nothing
\* was raised, the changelog has no changeset and the next id is still 1.
C15_NoValuesNoChangesets ==
    (/\ conv.which = "cdes"
     /\ \A i \in Converted : EmptyOrAbsent(model.annotations[i]))
        => changelog = <<>> /\ conv.error = "none" /\ conv.changeset_id = 1

\* C15 witness: a whole conversion of annotations that are all without
\* values, one with no value_set key and one with an empty list
C15_Witness ==
    /\ conv.which = "cdes"
    /\ todo = <<>>
    /\ \A i \in Converted : EmptyOrAbsent(model.annotations[i])
    /\ \E i, j \in Converted :
          /\ "value_set" \notin DOMAIN model.annotations[i]
          /\ "value_set" \in DOMAIN model.annotations[j]


\* ==================================================== generate_match_clause
\* A call returns a Match clause or raises; k holds the numbers the next N
\* and the next R get (every N(...) and R(...) made takes the next one).
Returned(clause, k) == [raised |-> "none", clause |-> clause, k |-> k]
Raised(error, k) == [raised |-> error, clause |-> <<>>, k |-> k]

\* `not x` of an attribute that is None or an empty string
Unset(attrs, key) == key \notin DOMAIN attrs \/ attrs[key] = <<>>

\* cypher_utils.py:91-98  match_edge
MatchEdge(heap, edge, ent_c, k) ==
    LET src_c == N(NVar(k.n), "node", heap[heap[edge].src].attrs)
        dst_c == N(NVar(k.n + 1), "node", heap[heap[edge].dst].attrs)
        src_trip == T(ent_c, R(RVar(k.r), "has_src"), src_c)
        dst_trip == T(ent_c, R(RVar(k.r + 1), "has_dst"), dst_c)
    IN  Returned(Clause("MATCH", <<G(src_trip, dst_trip)>>),
                 [n |-> k.n + 2, r |-> k.r + 2])

\* A match_prop that never looks at the owner handle.
MatchPropUnchecked(heap, prop, ent_c, k) ==
    LET par_c == N(NVar(k.n), "", [handle |-> GetOr(heap[prop].attrs, "_parent_handle")])
    IN  Returned(Clause("MATCH", <<T(par_c, R(RVar(k.r), "has_property"), ent_c)>>),
                 [n |-> k.n + 1, r |-> k.r + 1])

\* cypher_utils.py:101-108  match_prop
MatchProp(heap, prop, ent_c, k) ==
    IF Unset(heap[prop].attrs, "_parent_handle")
    THEN Raised("AttributeError", k)
    ELSE LET par_c == N(NVar(k.n), "", [handle |-> heap[prop].attrs["_parent_handle"]])
         IN  Returned(Clause("MATCH", <<T(par_c, R(RVar(k.r), "has_property"), ent_c)>>),
                      [n |-> k.n + 1, r |-> k.r + 1])

RECURSIVE GenerateMatchClause(_, _, _, _)

\* cypher_utils.py:111-123  match_tag: the parent's own match, then the
\* has_tag triple from the parent to the tag
MatchTag(heap, tag, ent_c, k) ==
    IF heap[tag].parent = 0
    THEN Raised("AttributeError", k)
    ELSE LET parent == heap[tag].parent
             par_c == N(NVar(k.n), Label(heap[parent].kind),
                        Pop(heap[parent].attrs, "_parent_handle"))
             par == GenerateMatchClause(heap, parent, par_c, [k EXCEPT !.n = @ + 1])
             tag_trip == T(PlainVar(par_c), R(RVar(par.k.r), "has_tag"), ent_c)
         IN  IF par.raised # "none" THEN par
             ELSE Returned(Clause("MATCH", par.clause.args \o <<tag_trip>>),
                           [par.k EXCEPT !.r = @ + 1])

\* cypher_utils.py:79-88  generate_match_clause
GenerateMatchClause(heap, entity, ent_c, k) ==
    CASE heap[entity].kind = "edge" -> MatchEdge(heap, entity, ent_c, k)
      [] heap[entity].kind = "property" ->
            MatchProp(heap, entity,
                      [ent_c EXCEPT !.props = Pop(@, "_parent_handle")], k)
      [] heap[entity].kind = "tag" -> MatchTag(heap, entity, ent_c, k)
      [] OTHER -> Returned(Clause("MATCH", <<ent_c>>), k)

\* The entities a match clause is asked for: a node (1), a property of it
\* with or without its owner handle (2), a tag (3) of nothing or of any other
\* object, a second tag (4) of nothing, of the node or of the property, and
\* an edge (5) from the node to itself.
MatchHeap(owner, parent3, parent4) ==
    << Obj("node", [handle |-> <<"n1">>]),
       Obj("property", With([handle |-> <<"p">>], "_parent_handle", owner)),
       [Obj("tag", [key |-> <<"k">>, value |-> <<"v">>]) EXCEPT !.parent = parent3],
       [Obj("tag", [key |-> <<"k2">>, value |-> <<"v">>]) EXCEPT !.parent = parent4],
       [Obj("edge", [handle |-> <<"e">>]) EXCEPT !.src = 1, !.dst = 1] >>

MInit ==
    /\ \E owner \in {<<>>, <<"n1">>}, parent3 \in {0, 1, 2, 4, 5},
          parent4 \in {0, 1, 2}, entity \in 1..5 :
          fn_in = [fn |-> "generate_match_clause",
                   heap |-> MatchHeap(owner, parent3, parent4), entity |-> entity]
    /\ fn_out = [fn |-> "idle"]
    /\ EscIdle
    /\ StIdle
    /\ GIdle
    /\ CIdle

\* a caller asks for the match clause of the entity's pattern
CallGenerateMatchClause ==
    /\ fn_in.fn = "generate_match_clause"
    /\ fn_out.fn = "idle"
    /\ LET ent_c == CypherizeEntity(EntOf(fn_in.heap, fn_in.entity), NVar(0))
           res == GenerateMatchClause(fn_in.heap, fn_in.entity, ent_c,
                                      [n |-> 1, r |-> 0])
       IN  fn_out' = [fn |-> "generate_match_clause", raised |-> res.raised,
                      clause |-> res.clause]
    /\ UNCHANGED <<fn_in, escVars, stVars, gVars, cVars>>

MNext == CallGenerateMatchClause

SpecMatch == MInit /\ [][MNext]_vars

\* a Property whose owner handle is unset
NoOwnerHandle(heap, o) ==
    heap[o].kind = "property" /\ "_parent_handle" \notin DOMAIN heap[o].attrs

\* C16: generate_match_clause raises an error, and returns no Match clause,
\* when asked for a Property whose owner handle is unset or for a Tag whose
\* parent reference is unset, and also for a Tag whose parent is a Property
\* whose owner handle is unset.
C16_MatchClauseRaises ==
    fn_out.fn = "generate_match_clause" =>
        LET heap == fn_in.heap
            o == fn_in.entity
        IN  (\/ NoOwnerHandle(heap, o)
             \/ heap[o].kind = "tag" /\ heap[o].parent = 0
             \/ /\ heap[o].kind = "tag"
                /\ heap[o].parent # 0
                /\ NoOwnerHandle(heap, heap[o].parent))
                => fn_out.raised = "AttributeError" /\ fn_out.clause = <<>>

\* C16 witness: the clause of a tag of a property with no owner handle was
\* asked for
C16_Witness ==
    /\ fn_out.fn = "generate_match_clause"
    /\ fn_in.heap[fn_in.entity].kind = "tag"
    /\ fn_in.heap[fn_in.entity].parent # 0
    /\ NoOwnerHandle(fn_in.heap, fn_in.heap[fn_in.entity].parent)


\* ------------------------------------ owner handles and parents in a walk
\* a model holds a property whose owner handle is unset, or a tag whose
\* parent reference is unset
MissingOwnerOrParent(heap) ==
    \E o \in DOMAIN heap :
        \/ NoOwnerHandle(heap, o)
        \/ heap[o].kind = "tag" /\ heap[o].parent = 0

\* C17: convert_model_to_changelog raises an error and returns no changelog
\* when the model it walks contains a property whose owner handle is unset
\* or a tag whose parent reference is unset.
C17_MissingOwnerAborts ==
    (/\ conv.which = "model"
     /\ ~model.terms_only
     /\ todo = <<>>
     /\ MissingOwnerOrParent(conv.given))
        => changelog = <<>> /\ conv.error # "none"


\* ==================================================== separate_shared_props
\* A model of three owners with one property each: nodes n1 and n2 and a third
\* owner, a node or an edge.  The first owner's property (4) has or has not a
\* nanoid, a commit marker and a value set (7); the second and third owners
\* hold that object itself ("same"), another object with the same attributes
\* ("equal") or another property ("different").
SharedHeap(third, share2, share3, nanoid, commit, value_set) ==
    LET attrs == With(With([handle |-> <<"p">>], "nanoid", nanoid), "_commit", commit)
        Prop(share, other) ==
            IF share = "different" THEN Obj("property", [handle |-> other])
            ELSE [Obj("property", attrs) EXCEPT !.value_set = value_set]
    IN  << [Obj("node", [handle |-> <<"n1">>]) EXCEPT !.props = <<4>>],
           [Obj("node", [handle |-> <<"n2">>])
               EXCEPT !.props = <<IF share2 = "same" THEN 4 ELSE 5>>],
           [Obj(third, [handle |-> <<"o3">>])
               EXCEPT !.props = <<IF share3 = "same" THEN 4 ELSE 6>>,
                      !.src = IF third = "edge" THEN 1 ELSE 0,
                      !.dst = IF third = "edge" THEN 2 ELSE 0],
           [Obj("property", attrs) EXCEPT !.value_set = value_set],
           Prop(share2, <<"q">>),
           Prop(share3, <<"r">>),
           Obj("value_set", [handle |-> <<"vs">>]) >>

\* model.props of that model, in insertion order
SharedProps(share2, share3) ==
    << [owner |-> 1, pos |-> 1, id |-> 4],
       [owner |-> 2, pos |-> 1, id |-> IF share2 = "same" THEN 4 ELSE 5],
       [owner |-> 3, pos |-> 1, id |-> IF share3 = "same" THEN 4 ELSE 6] >>

ShInit ==
    /\ \E third \in {"node", "edge"},
          share2 \in {"same", "equal", "different"},
          share3 \in {"same", "equal", "different"},
          nanoid \in {<<>>, <<"id-p">>}, commit \in {<<>>, <<"c1">>},
          value_set \in {0, 7} :
          fn_in = [fn |-> "separate_shared_props",
                   heap |-> SharedHeap(third, share2, share3, nanoid, commit, value_set),
                   props |-> SharedProps(share2, share3)]
    /\ fn_out = [fn |-> "idle"]
    /\ EscIdle
    /\ StIdle
    /\ GIdle
    /\ CIdle

\* model_cypher.py:41-61  separate_shared_props(model)
CallSeparateSharedProps ==
    /\ fn_in.fn = "separate_shared_props"
    /\ fn_out.fn = "idle"
    /\ LET res == SeparateSharedProps(Converter("model", fn_in.heap),
                                      [props |-> fn_in.props], 1, {})
       IN  fn_out' = [fn |-> "separate_shared_props", heap |-> res.c.heap,
                      props |-> res.m.props, raised |-> res.c.error]
    /\ UNCHANGED <<fn_in, escVars, stVars, gVars, cVars>>

ShNext == CallSeparateSharedProps

SpecShared == ShInit /\ [][ShNext]_vars

\* the first key, in insertion order, whose property was value-equal to the
\* i-th key's before the pass
FirstOfGroup(i) ==
    Min({ j \in 1..i : EntEq(fn_in.heap, fn_in.props[j].id, fn_in.props[i].id) })

\* the i-th key maps to a duplicate of its own: a new object no other key
\* maps to, with a fresh nanoid, a copy of the value set when there was one
\* and the original's commit marker, and the key's owner references it
OwnDuplicate(i) ==
    LET orig == fn_in.heap[fn_in.props[i].id]
        d == fn_out.props[i].id
        dup == fn_out.heap[d]
    IN  /\ d \notin DOMAIN fn_in.heap
        /\ \A j \in DOMAIN fn_out.props : j # i => fn_out.props[j].id # d
        /\ dup.kind = "property"
        /\ "nanoid" \in DOMAIN dup.attrs
        /\ dup.attrs["nanoid"] # GetOr(orig.attrs, "nanoid")
        /\ Pop(dup.attrs, "nanoid") = Pop(orig.attrs, "nanoid")
        /\ orig.value_set # 0 =>
              /\ dup.value_set \notin DOMAIN fn_in.heap
              /\ fn_out.heap[dup.value_set].attrs = fn_in.heap[orig.value_set].attrs
        /\ fn_out.heap[fn_in.props[i].owner].props[fn_in.props[i].pos] = d

\* C18: after separate_shared_props(model), of the keys of model.props whose
\* properties were value-equal before, the first still maps to the original
\* object and every later one maps to its own duplicate (fresh identifier,
\* own copy of the value set, the original's commit marker), which its
\* owner, a node or an edge, now references.
C18_SharedPropsSeparated ==
    fn_out.fn = "separate_shared_props" =>
        /\ fn_out.raised = "none"
        /\ \A i \in DOMAIN fn_in.props :
              IF FirstOfGroup(i) = i
              THEN fn_out.props[i].id = fn_in.props[i].id
              ELSE OwnDuplicate(i)


\* ------------------------------------------------------------------------
\* clients.py: CADSRClient.check_cdes_against_mdb
\* ------------------------------------------------------------------------

\* longest list of permissible values fetched for one CDE
MaxPvs == 2

PvValues == {"Diploid", "Not evaluable"}

CdeCodes == {"6142527", "11524549"}

\* a None entry of the fetched list (list[PermissibleValue | None])
NullPv == [null |-> TRUE]

\* a permissible value as get_valueset_from_json builds it
CadsrPv(v) ==
    [value |-> v, origin_name |-> "caDSR",
     origin_id |-> IF v = "Diploid" THEN "2559596" ELSE "2559597"]

\* an MDB CDE with its permissible values, as the tests' TEST_MDB_CDE_SPEC
MdbCdeSpec(code, values) ==
    [CDECode |-> code, CDEVersion |-> "1.00", CDEOrigin |-> "caDSR",
     CDEFullName |-> IF code = "6142527" THEN "ploidy" ELSE "sample_type",
     permissibleValues |-> [i \in DOMAIN values |-> [value |-> values[i]]]]

\* the loop over cadsr_pvs with every non-null value kept
AllPvs(cadsr_pvs, mdb_pvs) ==
    SelectSeq(cadsr_pvs, LAMBDA pv : pv # NullPv)

\* clients.py:176-189: the value_set after the loop over cadsr_pvs; a null
\* entry and a value the MDB already has are skipped, the rest is appended
RECURSIVE NewPvs(_, _)
NewPvs(cadsr_pvs, mdb_pvs) ==
    IF cadsr_pvs = <<>> THEN <<>>
    ELSE LET pv == Head(cadsr_pvs)
             rest == NewPvs(Tail(cadsr_pvs), mdb_pvs)
         IN  IF pv = NullPv THEN rest
             ELSE IF \E i \in DOMAIN mdb_pvs : mdb_pvs[i] = pv.value THEN rest
             ELSE <<pv>> \o rest

\* clients.py:162-174: the record of one CDE
AnnotationSpec(cde_spec, value_set) ==
    [entity |-> <<>>,
     annotation |->
        [key |-> <<cde_spec.CDEFullName, cde_spec.CDEOrigin>>,
         attrs |-> [origin_id |-> cde_spec.CDECode,
                    origin_version |-> cde_spec.CDEVersion,
                    origin_name |-> cde_spec.CDEOrigin,
                    value |-> cde_spec.CDEFullName]],
     value_set |-> value_set]

\* clients.py:145-193: fetched[i] is what fetch_cde_valueset returned for
\* the i-th CDE; update_annotation is set exactly when a value was appended
RECURSIVE CheckCdesAgainstMdb(_, _)
CheckCdesAgainstMdb(mdb_cdes, fetched) ==
    IF mdb_cdes = <<>> THEN <<>>
    ELSE LET cde_spec == Head(mdb_cdes)
             mdb_pvs == [i \in DOMAIN cde_spec.permissibleValues |->
                            cde_spec.permissibleValues[i].value]
             value_set == NewPvs(Head(fetched), mdb_pvs)
             rest == CheckCdesAgainstMdb(Tail(mdb_cdes), Tail(fetched))
         IN  IF value_set = <<>> THEN rest
             ELSE <<AnnotationSpec(cde_spec, value_set)>> \o rest

\* the sequences over S of length at most n
SeqsUpTo(S, n) == UNION { [1..k -> S] : k \in 0..n }

\* the sequences over S without repetition
DistinctSeqs(S) ==
    { s \in SeqsUpTo(S, Cardinality(S)) :
        \A i, j \in DOMAIN s : i # j => s[i] # s[j] }

KInit ==
    /\ \E codes \in DistinctSeqs(CdeCodes) :
       \E values \in [DOMAIN codes -> DistinctSeqs(PvValues)] :
       \E fetched \in [DOMAIN codes ->
                          SeqsUpTo({NullPv} \cup {CadsrPv(v) : v \in PvValues}, MaxPvs)] :
          fn_in = [fn |-> "check_cdes_against_mdb",
                   mdb_cdes |-> [i \in DOMAIN codes |-> MdbCdeSpec(codes[i], values[i])],
                   fetched |-> fetched]
    /\ fn_out = [fn |-> "idle"]
    /\ EscIdle
    /\ StIdle
    /\ GIdle
    /\ CIdle

CallCheckCdesAgainstMdb ==
    /\ fn_in.fn = "check_cdes_against_mdb"
    /\ fn_out.fn = "idle"
    /\ fn_out' = [fn |-> "check_cdes_against_mdb",
                  result |-> CheckCdesAgainstMdb(fn_in.mdb_cdes, fn_in.fetched)]
    /\ UNCHANGED <<fn_in, escVars, stVars, gVars, cVars>>

KNext == CallCheckCdesAgainstMdb

SpecCheckCdes == KInit /\ [][KNext]_vars

\* the values the MDB holds for the i-th CDE
MdbValues(i) ==
    { fn_in.mdb_cdes[i].permissibleValues[j].value :
        j \in DOMAIN fn_in.mdb_cdes[i].permissibleValues }

\* a fetched entry that is a permissible value the MDB does not have
IsNewPv(i, pv) == pv # NullPv /\ pv.value \notin MdbValues(i)

\* the records returned for the i-th CDE
RecordsOf(i) ==
    { k \in DOMAIN fn_out.result :
        fn_out.result[k].annotation.attrs.origin_id = fn_in.mdb_cdes[i].CDECode }

\* C20: check_cdes_against_mdb returns one record for exactly those CDEs
\* for which the fetch holds at least one non-null permissible value whose
\* value the MDB does not have; the record's value_set is exactly those
\* values in the fetched order; a CDE with no new value, or with an empty
\* fetch, has no record, and no record is for anything else.
C20_NewPvsReported ==
    fn_out.fn = "check_cdes_against_mdb" =>
        /\ \A i \in DOMAIN fn_in.mdb_cdes :
              LET new == SelectSeq(fn_in.fetched[i], LAMBDA pv : IsNewPv(i, pv))
              IN  IF new = <<>>
                  THEN RecordsOf(i) = {}
                  ELSE /\ Cardinality(RecordsOf(i)) = 1
                       /\ \A k \in RecordsOf(i) : fn_out.result[k].value_set = new
        /\ \A k \in DOMAIN fn_out.result :
              \E i \in DOMAIN fn_in.mdb_cdes : k \in RecordsOf(i)

\* two CDEs: one is reported with two different new values, in the fetched
\* order; the other, whose fetch holds only a value the MDB has, is not
C20_Witness ==
    /\ fn_out.fn = "check_cdes_against_mdb"
    /\ Len(fn_out.result) = 1
    /\ \E i, j \in DOMAIN fn_in.mdb_cdes :
          /\ RecordsOf(i) = {1}
          /\ Len(fn_out.result[1].value_set) = 2
          /\ fn_out.result[1].value_set[1] # fn_out.result[1].value_set[2]
          /\ RecordsOf(j) = {}
          /\ \E n \in DOMAIN fn_in.fetched[j] : fn_in.fetched[j][n] # NullPv


\* ------------------------------------------------------------------------
\* clients.py: CADSRClient.fetch_cde_valueset
\* ------------------------------------------------------------------------

\* clients.py:28
DEFAULT_RETRIES == 3

\* what one requests.get can meet: a connection failure, a non-2xx status,
\* a 2xx body that is not JSON, a 2xx body with or without permissible values
Responses ==
    {[status |-> 0], [status |-> 404], [status |-> 500],
     [status |-> 200, json |-> "invalid"],
     [status |-> 200, json |-> <<>>],
     [status |-> 200, json |-> <<CadsrPv("Diploid")>>]}

\* clients.py:116-143: requests.get and raise_for_status raise a
\* RequestException, which only the retry decorator handles: it calls again
\* until the attempts are used up and then lets the last exception through;
\* JSONDecodeError is the one exception the body itself turns into []
RECURSIVE FetchCdeValueset(_, _)
FetchCdeValueset(responses, attempt) ==
    LET response == responses[attempt]
    IN  IF response.status = 0 \/ response.status \notin 200..299
        THEN IF attempt < DEFAULT_RETRIES
             THEN FetchCdeValueset(responses, attempt + 1)
             ELSE [attempts |-> attempt, result |-> <<>>,
                   raised |-> IF response.status = 0 THEN "ConnectionError"
                              ELSE "HTTPError"]
        ELSE [attempts |-> attempt, raised |-> "none",
              result |-> IF response.json = "invalid" THEN <<>> ELSE response.json]

FetchInit ==
    /\ \E responses \in [1..DEFAULT_RETRIES -> Responses] :
          fn_in = [fn |-> "fetch_cde_valueset", responses |-> responses]
    /\ fn_out = [fn |-> "idle"]
    /\ EscIdle
    /\ StIdle
    /\ GIdle
    /\ CIdle

CallFetchCdeValueset ==
    /\ fn_in.fn = "fetch_cde_valueset"
    /\ fn_out.fn = "idle"
    /\ fn_out' = [fn |-> "fetch_cde_valueset"] @@ FetchCdeValueset(fn_in.responses, 1)
    /\ UNCHANGED <<fn_in, escVars, stVars, gVars, cVars>>

FetchNext == CallFetchCdeValueset

SpecFetch == FetchInit /\ [][FetchNext]_vars

\* the response of the last request the call made
LastResponse == fn_in.responses[fn_out.attempts]

\* C21: fetch_cde_valueset makes at most three requests, and when the
\* response it ends on has a status that is not 2xx it returns an empty
\* list and raises nothing.
C21_HttpErrorGivesEmptyList ==
    fn_out.fn = "fetch_cde_valueset" =>
        /\ fn_out.attempts <= 3
        /\ (LastResponse.status # 0 /\ LastResponse.status \notin 200..299) =>
              fn_out.raised = "none" /\ fn_out.result = <<>>


\* ------------------------------------------- the statements of an annotation
\* a value as the change text shows it
Shown(v) == ReplaceEscapedQuote(EscapeVal(v))

\* the attribute a pattern node is recognised by
KeyVal(n) == IF n.label = "value_set" THEN n.props["handle"] ELSE GetOr(n.props, "value")

\* what a changeset of an annotation does: the MERGE of a value set or a
\* term, the has_term relationship between two matched nodes, or the link
\* of two matched terms
Shape(cs) ==
    IF cs.text[1].op = "MERGE"
    THEN [does |-> "MERGE", label |-> cs.text[1].args[1].label,
          a |-> KeyVal(cs.text[1].args[1]), b |-> <<>>]
    ELSE IF IsRelationshipChange(cs)
    THEN [does |-> cs.text[2].args[1].rel.type, label |-> "",
          a |-> KeyVal(cs.text[1].args[1]), b |-> KeyVal(cs.text[1].args[2])]
    ELSE [does |-> "link", label |-> "",
          a |-> KeyVal(cs.text[1].args[1]), b |-> KeyVal(cs.text[1].args[2])]

\* the statements expected for one permissible value of the value set h
ExpectedOfPv(h, pv) ==
    IF pv = <<>> THEN <<>>
    ELSE <<[does |-> "MERGE", label |-> "term", a |-> Shown(pv["value"]), b |-> <<>>],
           [does |-> "has_term", label |-> "", a |-> h, b |-> Shown(pv["value"])]>>
         \o Flatten([j \in DOMAIN pv["synonyms"] |->
              <<[does |-> "MERGE", label |-> "term",
                 a |-> Shown(pv["synonyms"][j]["value"]), b |-> <<>>],
                [does |-> "link", label |-> "", a |-> Shown(pv["value"]),
                 b |-> Shown(pv["synonyms"][j]["value"])]>>])

\* the statements expected for an annotation
ExpectedOf(annotation) ==
    LET attrs == annotation.annotation.attrs
        h == Shown(GetOr(attrs, "origin_id") \o <<"|">> \o GetOr(attrs, "origin_version"))
    IN  <<[does |-> "MERGE", label |-> "value_set", a |-> h, b |-> <<>>]>>
        \o Flatten([i \in DOMAIN annotation["value_set"] |->
                       ExpectedOfPv(h, annotation["value_set"][i])])

\* 1 + the sum over the non-null values of (2 + 2 * number of synonyms)
RECURSIVE ExpectedCount(_)
ExpectedCount(pvs) ==
    IF pvs = <<>> THEN 1
    ELSE ExpectedCount(Tail(pvs))
         + (IF Head(pvs) = <<>> THEN 0 ELSE 2 + 2 * Len(Head(pvs)["synonyms"]))

\* the changesets the step appends to the changelog
Appended == SubSeq(changelog', Len(changelog) + 1, Len(changelog'))

\* a step that converts an annotation with permissible values
ConvertsValues ==
    /\ Running("convert_annotation")
    /\ ~NoValueSet(model.annotations[Arg(1)])
    /\ ~PopFails(model.annotations[Arg(1)])
    /\ todo' # todo

\* C22: for one annotation with a non-empty value_set the changesets are,
\* in this order, the value-set MERGE, then for each non-null permissible
\* value its term MERGE and the has_term relationship from the value set,
\* then for each of its synonyms the synonym's term MERGE and the link of
\* the two terms; so a statement that MATCHes comes after the MERGE of
\* both nodes it matches, and there are 1 + sum (2 + 2 * synonyms) of them.
C22_StatementOrder ==
    [][ConvertsValues =>
          LET annotation == model.annotations[Arg(1)]
          IN  /\ [i \in DOMAIN Appended |-> Shape(Appended[i])] = ExpectedOf(annotation)
              /\ Len(Appended) = ExpectedCount(annotation["value_set"])
              /\ \A j \in DOMAIN Appended :
                    Shape(Appended[j]).does # "MERGE" =>
                       \A x \in {Shape(Appended[j]).a, Shape(Appended[j]).b} :
                          \E i \in 1..(j - 1) :
                             /\ Shape(Appended[i]).does = "MERGE"
                             /\ Shape(Appended[i]).a = x]_vars

\* one annotation converted: two values, the first with two synonyms, the
\* second with one; eleven changesets, the links at 5, 7 and 11
C22_Witness ==
    /\ conv.which = "cdes"
    /\ todo = <<>>
    /\ conv.error = "none"
    /\ Len(model.annotations) = 1
    /\ ~NoValueSet(model.annotations[1])
    /\ Len(model.annotations[1]["value_set"]) = 2
    /\ Len(changelog) = 11
    /\ \A i \in {5, 7, 11} : Shape(changelog[i]).does = "link"
    /\ Shape(changelog[5]).b # Shape(changelog[7]).b


\* ------------------------------------------- an empty permissible value
\* the annotation without its empty permissible values
WithoutNulls(annotation) ==
    [annotation EXCEPT !["value_set"] = SelectSeq(@, LAMBDA pv : pv # <<>>)]

\* a step that converts an annotation one of whose values is empty
ConvertsWithNull ==
    /\ ConvertsValues
    /\ \E i \in DOMAIN model.annotations[Arg(1)]["value_set"] :
          model.annotations[Arg(1)]["value_set"][i] = <<>>

\* C23: an empty permissible value inside a value_set that is not empty is
\* skipped: no error is raised, the changesets are those of the other
\* values of the annotation, and the conversion goes on with the next
\* annotation.
C23_NullValueSkipped ==
    [][ConvertsWithNull =>
          /\ conv'.error = "none"
          /\ [i \in DOMAIN Appended |-> Shape(Appended[i])]
                = ExpectedOf(WithoutNulls(model.annotations[Arg(1)]))
          /\ Len(Appended) > 1
          /\ todo' = Tail(todo)]_vars

\* two annotations converted, the first with an empty value before a value
\* with a synonym (five changesets), the second with a value of its own
C23_Witness ==
    /\ conv.which = "cdes"
    /\ todo = <<>>
    /\ conv.error = "none"
    /\ Len(model.annotations) = 2
    /\ ~NoValueSet(model.annotations[1])
    /\ model.annotations[1]["value_set"][1] = <<>>
    /\ ~NoValueSet(model.annotations[2])
    /\ Len(changelog) > 5
    /\ Shape(changelog[5]).does = "link"
    /\ Shape(changelog[6]).label = "value_set"


\* ------------------------------------------------------------------------
\* the variable counters of the pattern classes (N.count, R.count)
\* ------------------------------------------------------------------------

\* statements built one after the other before they are rendered
MaxBuilt == 3

\* Counters that go on from where the statement before left them.
KeepPgEntCounter(counter) == counter

\* cypher_utils.py:73-76  reset_pg_ent_counter()
ResetPgEntCounter(counter) == [n |-> 0, r |-> 0]

\* the name a pattern made as the k-th of its class gets when the counter
\* stood at base as the statement's first pattern was made
VarAt(v, counter) ==
    IF \E k \in 0..7 : NVar(k) = v
    THEN "n" \o ToString(counter.n + (CHOOSE k \in 0..7 : NVar(k) = v))
    ELSE IF \E k \in 0..6 : RVar(k) = v
    THEN "r" \o ToString(counter.r + (CHOOSE k \in 0..6 : RVar(k) = v))
    ELSE v

RECURSIVE NumberPattern(_, _)
NumberPattern(x, counter) ==
    CASE x.t \in {"N", "R", "P", "WHEN"} -> [x EXCEPT !.var = VarAt(@, counter)]
      [] x.t = "T" -> [x EXCEPT !.src = NumberPattern(x.src, counter),
                                !.rel = NumberPattern(x.rel, counter),
                                !.dst = NumberPattern(x.dst, counter)]
      [] x.t = "G" -> [x EXCEPT !.trips = [i \in DOMAIN x.trips |->
                                              NumberPattern(x.trips[i], counter)]]

\* a statement whose patterns took their variables from the counters as
\* they stood after the builder's reset_pg_ent_counter()
RECURSIVE Numbered(_, _)
Numbered(stmt, counter) ==
    [i \in DOMAIN stmt |->
        IF stmt[i].op = "RAW" THEN stmt[i]
        ELSE IF stmt[i].op = "WITH"
        THEN [stmt[i] EXCEPT !.args = [j \in DOMAIN stmt[i].args |->
                                          VarAt(stmt[i].args[j], counter)]]
        ELSE IF stmt[i].op = "FOREACH"
        THEN [stmt[i] EXCEPT !.body = Numbered(stmt[i].body, counter)]
        ELSE [stmt[i] EXCEPT !.args = [j \in DOMAIN stmt[i].args |->
                                          NumberPattern(stmt[i].args[j], counter)]]]

\* fn_in holds the counters, fn_out the statements built so far
BInit ==
    /\ fn_in = [fn |-> "builders", counter |-> [n |-> 0, r |-> 0]]
    /\ fn_out = [fn |-> "builders", stmts |-> <<>>]
    /\ EscIdle
    /\ StIdle
    /\ GIdle
    /\ CIdle

\* one builder call: the counters are reset, the patterns are made (made_n
\* nodes, made_r relationships), the statement is kept for later
Built(stmt, made_n, made_r) ==
    /\ fn_in.fn = "builders"
    /\ Len(fn_out.stmts) < MaxBuilt
    /\ LET counter == ResetPgEntCounter(fn_in.counter)
       IN  /\ fn_out' = [fn_out EXCEPT !.stmts = Append(@, Numbered(stmt, counter))]
           /\ fn_in' = [fn_in EXCEPT !.counter =
                           [n |-> counter.n + made_n, r |-> counter.r + made_r]]
    /\ UNCHANGED <<escVars, stVars, gVars, cVars>>

BuildEntity ==
    \E ent \in {TermA, TermB, Ent("node", [handle |-> <<"a">>])} :
        Built(CreateEntityCypherStmt(ent).stmt, 1, 0)

BuildRelationship ==
    \E dst \in {TermA, TermB} :
        Built(CreateRelationshipCypherStmt(Ent("value_set", [handle |-> <<"a">>]),
                                           "has_term", dst).stmt, 2, 1)

BuildLink ==
    \E pair \in {<<TermA, TermB>>, <<TermB, TermA>>} :
        Built(GenerateCypherToLinkTermSynonyms(pair[1], pair[2], LinkSource, TestCommit), 8, 7)

BNext == BuildEntity \/ BuildRelationship \/ BuildLink

SpecBuilders == BInit /\ [][BNext]_vars

\* the node patterns (those with a label) and the relationships with a
\* variable, in one pattern and in a statement
RECURSIVE NodesIn(_)
NodesIn(x) ==
    CASE x.t = "N" -> IF x.label = "" THEN <<>> ELSE <<x>>
      [] x.t = "T" -> NodesIn(x.src) \o NodesIn(x.dst)
      [] x.t = "G" -> Flatten([i \in DOMAIN x.trips |-> NodesIn(x.trips[i])])
      [] OTHER -> <<>>

RECURSIVE RelsIn(_)
RelsIn(x) ==
    CASE x.t = "T" -> IF x.rel.var = "" THEN <<>> ELSE <<x.rel>>
      [] x.t = "G" -> Flatten([i \in DOMAIN x.trips |-> RelsIn(x.trips[i])])
      [] OTHER -> <<>>

RECURSIVE StmtNodes(_)
StmtNodes(stmt) ==
    Flatten([i \in DOMAIN stmt |->
        IF stmt[i].op \in {"WITH", "RAW"} THEN <<>>
        ELSE IF stmt[i].op = "FOREACH" THEN StmtNodes(stmt[i].body)
        ELSE Flatten([j \in DOMAIN stmt[i].args |-> NodesIn(stmt[i].args[j])])])

RECURSIVE StmtRels(_)
StmtRels(stmt) ==
    Flatten([i \in DOMAIN stmt |->
        IF stmt[i].op \in {"WITH", "RAW"} THEN <<>>
        ELSE IF stmt[i].op = "FOREACH" THEN StmtRels(stmt[i].body)
        ELSE Flatten([j \in DOMAIN stmt[i].args |-> RelsIn(stmt[i].args[j])])])

VarsOf(pats) == { pats[i].var : i \in DOMAIN pats }

\* C24: every statement built numbers its node variables n0, n1, ... and
\* its relationship variables r0, r1, ... from 0, whatever was built before
\* it and although it is rendered after all of them; in one statement two
\* node patterns with the same variable are the same node, and no two
\* relationships have the same variable.
C24_VariablesFromZero ==
    fn_out.fn = "builders" =>
        \A s \in DOMAIN fn_out.stmts :
            LET ns == StmtNodes(fn_out.stmts[s])
                rs == StmtRels(fn_out.stmts[s])
            IN  /\ VarsOf(ns) = { "n" \o ToString(k) : k \in 0..(Cardinality(VarsOf(ns)) - 1) }
                /\ VarsOf(rs) = { "r" \o ToString(k) : k \in 0..(Cardinality(VarsOf(rs)) - 1) }
                /\ \A i, j \in DOMAIN ns : ns[i].var = ns[j].var =>
                      ns[i].label = ns[j].label /\ ns[i].props = ns[j].props
                /\ Cardinality(VarsOf(rs)) = Len(rs)

\* a link statement (eight nodes, seven relationships) built first, an
\* entity statement and a relationship statement built after it
C24_Witness ==
    /\ fn_out.fn = "builders"
    /\ Len(fn_out.stmts) = 3
    /\ Cardinality(VarsOf(StmtNodes(fn_out.stmts[1]))) = 8
    /\ Len(StmtRels(fn_out.stmts[1])) = 7
    /\ Len(StmtNodes(fn_out.stmts[2])) = 1
    /\ Len(StmtRels(fn_out.stmts[3])) = 1


\* ------------------------------------------- the version of model entities
\* the nodes, edges and properties of the model as the conversion left it
ModelEnts ==
    {model.nodes[i] : i \in DOMAIN model.nodes}
       \cup {model.edges[i] : i \in DOMAIN model.edges}
       \cup {model.props[i].id : i \in DOMAIN model.props}

\* the object handed over that o is, or is the duplicate of
OriginalOf(o) ==
    IF o \in DOMAIN conv.given THEN o
    ELSE CHOOSE p \in DOMAIN conv.given :
            /\ conv.given[p].kind = conv.heap[o].kind
            /\ conv.given[p].attrs["handle"] = conv.heap[o].attrs["handle"]

\* a changeset that CREATEs a node, an edge or a property
CreatesModelEnt(cs) ==
    /\ cs.text[1].op = "CREATE"
    /\ cs.text[1].args[1].label \in {"node", "relationship", "property"}

\* C25: after convert_model_to_changelog on a model whose version, with the
\* override applied, is v and not null, every node, edge and property that
\* had no version has version v, every one that had a version has kept it,
\* the duplicates of the deduplication pass included, and every CREATE of
\* a node, an edge or a property in the changelog carries a version.
C25_VersionStamped ==
    (conv.which = "model" /\ changelog # <<>> /\ model.version # <<>>) =>
        /\ \A o \in ModelEnts :
              LET had == conv.given[OriginalOf(o)].attrs
              IN  /\ "version" \in DOMAIN conv.heap[o].attrs
                  /\ conv.heap[o].attrs["version"] =
                        IF "version" \in DOMAIN had THEN had["version"] ELSE model.version
        /\ \A i \in DOMAIN changelog :
              CreatesModelEnt(changelog[i]) =>
                 /\ "version" \in DOMAIN changelog[i].text[1].args[1].props
                 /\ changelog[i].text[1].args[1].props["version"] \in {model.version, <<"0.9">>}

\* a whole model converted with version 1.0: no entity had a version, the
\* second node's property is a duplicate, five CREATEs carry the version
C25_Witness ==
    /\ conv.which = "model"
    /\ changelog # <<>>
    /\ ~model.terms_only
    /\ model.version = <<"1.0">>
    /\ \A o \in DOMAIN conv.given : "version" \notin DOMAIN conv.given[o].attrs
    /\ \E o \in ModelEnts : o \notin DOMAIN conv.given
    /\ Cardinality({ i \in DOMAIN changelog :
                       /\ CreatesModelEnt(changelog[i])
                       /\ changelog[i].text[1].args[1].props["version"] = <<"1.0">> }) = 5


\* ------------------------------------------- terms-only mode
\* the label an entity statement creates, the type a relationship
\* statement merges
CreatedLabel(stmt) == stmt[1].args[1].label
MergedType(stmt) == stmt[2].args[1].rel.type

\* the terms of the properties' value sets and of the model
ModelTerms ==
    UNION { LET vs == conv.heap[model.props[i].id].value_set
            IN  IF vs = 0 THEN {}
                ELSE { conv.heap[vs].terms[j] : j \in DOMAIN conv.heap[vs].terms } :
            i \in DOMAIN model.props }
       \cup { model.terms[i] : i \in DOMAIN model.terms }

\* C26: in terms-only mode no node, edge, property or value set is created
\* and no has_property, has_src, has_dst, has_value_set or has_term
\* relationship is made: the statements are the model node and terms with
\* their tags, origins and concepts; once the changelog is made, every term
\* of a property and of the model has its statement, and its concept's.
C26_TermsOnly ==
    (conv.which = "model" /\ model.terms_only) =>
        /\ \A i \in DOMAIN conv.add_ents :
              CreatedLabel(conv.add_ents[i].stmt)
                 \in {"model", "term", "tag", "origin", "concept"}
        /\ \A i \in DOMAIN conv.add_rels :
              MergedType(conv.add_rels[i].stmt)
                 \in {"has_tag", "has_origin", "has_concept", "represents"}
        /\ \A i \in DOMAIN changelog :
              IF IsEntityChange(changelog[i])
              THEN CreatedLabel(changelog[i].text)
                      \notin {"node", "relationship", "property", "value_set"}
              ELSE MergedType(changelog[i].text)
                      \notin {"has_property", "has_src", "has_dst",
                              "has_value_set", "has_term"}
        /\ changelog # <<>> =>
              \A t \in ModelTerms :
                 /\ \E i \in DOMAIN conv.add_ents :
                       /\ CreatedLabel(conv.add_ents[i].stmt) = "term"
                       /\ conv.add_ents[i].stmt[1].args[1].props["value"]
                             = conv.heap[t].attrs["value"]
                 /\ conv.heap[t].concept # 0 =>
                       \E i \in DOMAIN conv.add_rels :
                          /\ MergedType(conv.add_rels[i].stmt) = "has_concept"
                          /\ conv.add_rels[i].stmt[1].args[1].props["value"]
                                = conv.heap[t].attrs["value"]

\* a terms-only changelog of a model whose first term has a concept: the
\* two terms, an origin, the concept with its tag and its own term
C26_Witness ==
    /\ conv.which = "model"
    /\ model.terms_only
    /\ changelog # <<>>
    /\ conv.given[6].concept = 8
    /\ Cardinality(ModelTerms) = 2
    /\ \E i \in DOMAIN conv.add_rels : MergedType(conv.add_rels[i].stmt) = "represents"
    /\ \E i \in DOMAIN conv.add_rels : MergedType(conv.add_rels[i].stmt) = "has_origin"


\* ------------------------------------------------------------------------
\* a CREATE statement and its rollback run on a graph
\* ------------------------------------------------------------------------

\* CREATE (n0:label {props}): a new node
ExecCreateEntityStmt(stmt, g) ==
    AddNode(g, Fresh(g), stmt[1].args[1].label, stmt[1].args[1].props)

\* MATCH (n0:label {props}) DETACH DELETE n0: every node the pattern
\* matches goes, with the edges at it
ExecDetachDelete(stmt, g) ==
    LET gone == Matches(g, stmt[1].args[1])
        kept == { e \in BagToSet(g.edges) : e[1] \notin gone /\ e[3] \notin gone }
    IN  [nodes |-> [i \in DOMAIN g.nodes \ gone |-> g.nodes[i]],
         edges |-> [e \in kept |-> CopiesIn(e, g.edges)]]

\* the entities whose statement is a CREATE with a deleting rollback
CreatedEntities ==
    { Ent("node", [handle |-> <<"a">>, model |-> <<"m">>]),
      Ent("edge", [handle |-> <<"a">>, model |-> <<"m">>, nanoid |-> <<"id-1">>]),
      Ent("property", [handle |-> <<"a">>, model |-> <<"m">>, nanoid |-> <<"id-2">>,
                       _parent_handle |-> <<"owner">>]),
      Ent("tag", [key |-> <<"k">>, value |-> <<"a">>, nanoid |-> <<"id-3">>]) }

\* the nodes a database may hold before: the node of an earlier version of
\* the model, the same node again, a node of another model, a tag
EarlierNodes ==
    << [label |-> "node", props |-> [handle |-> <<"a">>, model |-> <<"m">>,
                                     version |-> <<"0.9">>]],
       [label |-> "node", props |-> [handle |-> <<"a">>, model |-> <<"m">>]],
       [label |-> "node", props |-> [handle |-> <<"a">>, model |-> <<"m2">>]],
       [label |-> "tag", props |-> [key |-> <<"k">>, value |-> <<"a">>,
                                    nanoid |-> <<"id-3">>]],
       [label |-> "property", props |-> [handle |-> <<"b">>, model |-> <<"m">>,
                                         nanoid |-> <<"id-4">>]] >>

RbInit ==
    /\ \E ids \in SUBSET DOMAIN EarlierNodes :
       \E edges \in SUBSET { <<i, "has_property", 5>> : i \in ids \cap {1, 2, 3} } :
          /\ 5 \in ids \/ edges = {}
          /\ graph = [nodes |-> [i \in ids |-> EarlierNodes[i]],
                      edges |-> SetToBag(edges)]
    /\ glog = <<>>
    /\ EscIdle
    /\ StIdle
    /\ CIdle
    /\ FIdle

\* the runner executes the statement of create_entity_cypher_stmt(entity)
ExecCreateEntity ==
    /\ glog = <<>>
    /\ \E ent \in CreatedEntities :
          LET res == CreateEntityCypherStmt(ent)
          IN  /\ graph' = ExecCreateEntityStmt(res.stmt, graph)
              /\ glog' = <<[op |-> "create", stmt |-> res.stmt,
                            rollback |-> res.rollback, before |-> graph]>>
    /\ UNCHANGED <<escVars, stVars, cVars, fVars>>

\* the runner rolls the changeset back
ExecRollback ==
    /\ Len(glog) = 1
    /\ graph' = ExecDetachDelete(glog[1].rollback, graph)
    /\ glog' = Append(glog, [op |-> "rollback", stmt |-> glog[1].rollback,
                             before |-> graph])
    /\ UNCHANGED <<escVars, stVars, cVars, fVars>>

RbNext == ExecCreateEntity \/ ExecRollback

SpecRollback == RbInit /\ [][RbNext]_vars

\* C27: the CREATE statement of a node, an edge, a property or a tag
\* followed by its rollback leaves any graph exactly as it was before the
\* CREATE.
C27_RollbackRestores ==
    (Len(glog) = 2 /\ glog[2].op = "rollback") => graph = glog[1].before


\* ------------------------------------------- the endpoints of a relationship
\* a pattern without the commit marker and the owner's handle
Bare(n) == [label |-> n.label,
            props |-> Pop(Pop(n.props, "_commit"), "_parent_handle")]

\* C28: in a changelog of convert_model_to_changelog both endpoints of
\* every relationship changeset have an entity changeset with a smaller id
\* whose pattern, the commit marker and the owner's handle apart, is the
\* endpoint's MATCH pattern.
C28_EndpointsCreatedBefore ==
    conv.which = "model" =>
        \A j \in DOMAIN changelog :
            IsRelationshipChange(changelog[j]) =>
                \A e \in DOMAIN changelog[j].text[1].args :
                    \E i \in DOMAIN changelog :
                        /\ IsEntityChange(changelog[i])
                        /\ IdOf(changelog[i]) < IdOf(changelog[j])
                        /\ Bare(changelog[i].text[1].args[1])
                              = Bare(changelog[j].text[1].args[e])

\* a changelog of a whole model with a property two nodes shared and a
\* term value that holds a quote: has_property, has_term, has_src among
\* its relationships
C28_Witness ==
    /\ conv.which = "model"
    /\ ~model.terms_only
    /\ changelog # <<>>
    /\ \E o \in ModelEnts : o \notin DOMAIN conv.given
    /\ conv.given[6].attrs["value"] = <<"a", "q">>
    /\ \A type \in {"has_property", "has_term", "has_src", "has_tag", "has_concept"} :
          \E j \in DOMAIN changelog :
             /\ IsRelationshipChange(changelog[j])
             /\ MergedType(changelog[j].text) = type


\* ------------------------------------------- the end of the walk
\* C29: the walk of convert_model_to_changelog over tags, origin, concept,
\* terms and value set comes to an end on every finite model, also when a
\* term's concept has that term among its terms: the nesting of calls never
\* outgrows what the interpreter allows.
C29_WalkEnds ==
    conv.which = "model" => conv.error # "RecursionError"


\* ------------------------------------------- the record after a conversion
\* C30: convert_annotation_to_changesets leaves the annotation record it is
\* given unchanged: every permissible value of a converted record still has
\* its synonyms list, so that a second conversion of the record finds the
\* key it pops and raises nothing.
C30_RecordKeepsSynonyms ==
    (conv.which = "cdes" /\ conv.error = "none")
        => \A i \in Converted : ~PopFails(model.annotations[i])

=============================================================================
